---- MODULE Spec2Model ----
(***************************************************************************)
(* A model of the baby-log parser: the session matcher and the daily       *)
(* aggregator (aggregator.ts) and the regex event extractor (parser code   *)
(* in fetch-date.ts).                                                      *)
(*                                                                         *)
(* Time.  A timestamp is a number of minutes since midnight of day 0, so   *)
(* getDateString is ts \div 1440, getHours is (ts % 1440) \div 60 and the  *)
(* "HH:MM" text of formatTime is the minute of the day ts % 1440 (two      *)
(* zero-padded HH:MM texts compare as their minutes of the day do).        *)
(*                                                                         *)
(* References.  matchSessions keeps references to event objects; a         *)
(* reference is modelled as the index of the event in the list that was    *)
(* passed to matchSessions, and null as 0.                                 *)
(***************************************************************************)
EXTENDS Integers, Sequences, FiniteSets, TLC

VARIABLES
  events,           \* the event list handed to matchSessions / aggregateByDay
  startType,        \* matchSessions: parameter startType
  endType,          \* matchSessions: parameter endType
  idx,              \* matchSessions: position of the for..of loop (1-based)
  currentStart,     \* matchSessions: let currentStart (0 = null)
  sessions,         \* matchSessions: const sessions
  pc,               \* position of the running function
  sortedEvents,     \* aggregateByDay: const sortedEvents
  feedingSessions,  \* aggregateByDay: const feedingSessions
  sleepSessions,    \* aggregateByDay: const sleepSessions
  dates,            \* aggregateByDay: the dates the for loop has still to visit
  summaries,        \* aggregateByDay: const summaries
  runs,             \* number of completed calls of aggregateByDay
  firstEvents,      \* the caller's list as it was before the first call
  firstSummaries,   \* what the first call returned
  state,            \* parseLogFile: const state (ParserState)
  entry,            \* parseEntry: parameter entry (RawLogEntry)
  out,              \* parseEntry: the events it returned
  records,          \* parseLogFile: the entries of the file, in document order
  ri,               \* parseLogFile: the next entry to hand to parseEntry (1-based)
  parsed,           \* parseLogFile: const events
  lines,            \* parseLogFile: const lines
  li,               \* parseLogFile: position of the for..of loop (1-based)
  currentEntry,     \* parseLogFile: let currentEntry (NoEntry = null)
  options,          \* process-date: what parseArgs read from the command line
  step,             \* process-date: position of main
  ran,              \* process-date: the commands run by execSync, with their outcome
  exitCode,         \* process-date: the exit status of the process, once exited
  startDate,        \* process-range: the start-date argument (a day number)
  endDate,          \* process-range: the end-date argument (a day number)
  rangeDates,       \* process-range: const dates
  rangeIdx,         \* process-range: let i of the for loop (1-based)
  results,          \* process-range: const results
  rangeExitCode,    \* process-range: the exit status of the process, once exited
  attempt,          \* parseWithGemini: let attempt of the for loop
  modelCalls,       \* parseWithGemini: number of calls of model.generateContent
  sleeps,           \* parseWithGemini: number of calls of sleep
  lastError,        \* parseWithGemini: the error the last call threw (NoError: none)
  delay,            \* parseWithGemini: const delay of the last catch block
  thrown,           \* parseWithGemini: the error it threw to its caller
  geminiPc,         \* parseWithGemini: position in the function
  settled,          \* withWhatsAppClient: let settled
  destroyCalls,     \* withWhatsAppClient: number of calls of client.destroy
  promise,          \* withWhatsAppClient: the promise it returns
  settleCalls,      \* withWhatsAppClient: number of calls of resolve and reject
  outcomes,         \* withWhatsAppClient: the outcomes handed to safeResolve and
                    \* safeReject, in the order of the calls
  handlers          \* withWhatsAppClient: the callbacks started, each at its await

matchVars == <<startType, endType, idx, currentStart, sessions>>
aggVars == <<sortedEvents, feedingSessions, sleepSessions, dates, summaries,
             runs, firstEvents, firstSummaries>>
lineVars == <<lines, li, currentEntry>>
parseVars == <<state, entry, out, records, ri, parsed, lineVars>>
rangeVars == <<startDate, endDate, rangeDates, rangeIdx, results, rangeExitCode>>
geminiVars == <<attempt, modelCalls, sleeps, lastError, delay, thrown, geminiPc>>
dateVars == <<options, step, ran, exitCode>>
clientVars == <<settled, destroyCalls, promise, settleCalls, outcomes, handlers>>
runVars == <<dateVars, rangeVars, geminiVars, clientVars>>
vars == <<events, pc, matchVars, aggVars, parseVars, runVars>>

(***************************************************************************)
(* Bounds of the model.                                                    *)
(***************************************************************************)
MaxEvents == 3
MaxTime == 1

(***************************************************************************)
(* Program constants.                                                      *)
(***************************************************************************)
NIGHT_START_HOUR == 21
NIGHT_END_HOUR == 8
MinutesPerDay == 1440
MaxFeedMinutes == 180
MaxSleepMinutes == 720
MinMorningNapMinutes == 30

NoEvent == 0

(***************************************************************************)
(* Generic helpers.                                                        *)
(***************************************************************************)
RECURSIVE SeqsUpTo(_, _)
SeqsUpTo(S, n) ==
  IF n = 0 THEN {<<>>}
  ELSE LET shorter == SeqsUpTo(S, n - 1)
       IN  shorter \cup {Append(s, x) : s \in {t \in shorter : Len(t) = n - 1}, x \in S}

RECURSIVE SumSeq(_)
SumSeq(s) == IF s = <<>> THEN 0 ELSE Head(s) + SumSeq(Tail(s))

Max(a, b) == IF a >= b THEN a ELSE b

(***************************************************************************)
(* Events (types.ts: ParsedEvent).  weight = 0 and diaperChangeType =       *)
(* "none" stand for an absent optional field.                              *)
(***************************************************************************)
MkEvent(type, ts) ==
  [type |-> type, timestamp |-> ts, rawMessage |-> <<>>, weight |-> 0,
   diaperChangeType |-> "none"]

StartStopTypes == {"START_FEED", "STOP_FEED", "START_SLEEP", "STOP_SLEEP"}

(***************************************************************************)
(* aggregator.ts helpers.                                                  *)
(***************************************************************************)
isNightTimeBothBounds(hour) == hour >= NIGHT_START_HOUR /\ hour < NIGHT_END_HOUR
isNightTime(hour) == hour >= NIGHT_START_HOUR \/ hour < NIGHT_END_HOUR

getDateString(ts) == ts \div MinutesPerDay

getHours(ts) == (ts % MinutesPerDay) \div 60

formatTime(ts) == ts % MinutesPerDay

getDurationMinutes(start, end) == end - start

getSessionDate(startTime) == getDateString(startTime)

(***************************************************************************)
(* matchSessions.  A matcher state is [currentStart, sessions]; a session  *)
(* is [start, end] of event indices, end = NoEvent for null.               *)
(***************************************************************************)
MkSession(s, e) == [start |-> s, end |-> e]

\* if (currentStart) sessions.push({start: currentStart, end: null})
FlushOpenNever(m) == m.sessions
FlushOpen(m) ==
  IF m.currentStart # NoEvent
    THEN Append(m.sessions, MkSession(m.currentStart, NoEvent))
    ELSE m.sessions

\* the branch event.type === startType
OnStart(m, i) == [currentStart |-> i, sessions |-> FlushOpen(m)]

\* the condition of the else-if branch: event.type === endType && currentStart
ClosesUnguarded(m, type, eType) == type = eType
Closes(m, type, eType) == type = eType /\ m.currentStart # NoEvent

\* the else-if branch: push the closed session, currentStart = null
OnStopKeepsOpen(m, i) ==
  [currentStart |-> m.currentStart,
   sessions |-> Append(m.sessions, MkSession(m.currentStart, i))]
OnStop(m, i) ==
  [currentStart |-> NoEvent,
   sessions |-> Append(m.sessions, MkSession(m.currentStart, i))]

\* one iteration of the for loop on the event at index i
MatchEvent(m, i, type, sType, eType) ==
  IF type = sType THEN OnStart(m, i)
  ELSE IF Closes(m, type, eType) THEN OnStop(m, i)
  ELSE m

RECURSIVE MatchLoop(_, _, _, _, _)
MatchLoop(evts, i, m, sType, eType) ==
  IF i > Len(evts) THEN m
  ELSE MatchLoop(evts, i + 1, MatchEvent(m, i, evts[i].type, sType, eType),
                 sType, eType)

matchSessions(evts, sType, eType) ==
  FlushOpen(MatchLoop(evts, 1, [currentStart |-> NoEvent, sessions |-> <<>>],
                      sType, eType))

(***************************************************************************)
(* SpecMatch: one call of matchSessions on an arbitrary event list, one    *)
(* step per loop iteration.                                                *)
(***************************************************************************)
MatchTimes == 0..MaxTime

MatchInputEvents == {MkEvent(t, ts) : t \in StartStopTypes, ts \in MatchTimes}

Matcher == [currentStart |-> currentStart, sessions |-> sessions]

AggIdle ==
  /\ sortedEvents = <<>>
  /\ feedingSessions = <<>>
  /\ sleepSessions = <<>>
  /\ dates = <<>>
  /\ summaries = <<>>
  /\ runs = 0
  /\ firstEvents = <<>>
  /\ firstSummaries = <<>>

NoOptions ==
  [fetchOnly |-> FALSE, skipFetch |-> FALSE, skipParse |-> FALSE,
   skipPost |-> FALSE, skipInsights |-> FALSE]

\* an error object: status 0 and message "" stand for absent fields
NoError == [status |-> 0, message |-> ""]

\* the promise before resolve or reject has been called
Pending == [state |-> "pending", with |-> "none"]

ClientIdle ==
  /\ settled = FALSE
  /\ destroyCalls = 0
  /\ promise = Pending
  /\ settleCalls = 0
  /\ outcomes = <<>>
  /\ handlers = <<>>

GeminiIdle ==
  /\ attempt = 1
  /\ modelCalls = 0
  /\ sleeps = 0
  /\ lastError = NoError
  /\ delay = 0
  /\ thrown = NoError
  /\ geminiPc = "idle"

RangeIdle ==
  /\ startDate = 0
  /\ endDate = 0
  /\ rangeDates = <<>>
  /\ rangeIdx = 1
  /\ results = <<>>
  /\ rangeExitCode = 0

RunIdle ==
  /\ options = NoOptions
  /\ step = "idle"
  /\ ran = <<>>
  /\ exitCode = 0
  /\ RangeIdle
  /\ GeminiIdle
  /\ ClientIdle

NoEntry == [date |-> 0, message |-> <<>>]

ParseIdle ==
  /\ state = [lastFeedWasStop |-> TRUE, lastSleepWasStop |-> TRUE]
  /\ entry = NoEntry
  /\ out = <<>>
  /\ records = <<>>
  /\ ri = 1
  /\ parsed = <<>>
  /\ lines = <<>>
  /\ li = 1
  /\ currentEntry = NoEntry

InitMatch ==
  /\ events \in SeqsUpTo(MatchInputEvents, MaxEvents)
  /\ \E c \in {<<"START_FEED", "STOP_FEED">>, <<"START_SLEEP", "STOP_SLEEP">>} :
       startType = c[1] /\ endType = c[2]
  /\ idx = 1
  /\ currentStart = NoEvent
  /\ sessions = <<>>
  /\ pc = "loop"
  /\ RunIdle
  /\ AggIdle
  /\ ParseIdle

MatchAdvance(m) ==
  /\ currentStart' = m.currentStart
  /\ sessions' = m.sessions
  /\ idx' = idx + 1
  /\ UNCHANGED <<runVars, parseVars, events, pc, startType, endType, aggVars>>

InLoop == pc = "loop" /\ idx <= Len(events)

MatchOnStart ==
  /\ InLoop
  /\ events[idx].type = startType
  /\ MatchAdvance(MatchEvent(Matcher, idx, events[idx].type, startType, endType))

MatchOnStop ==
  /\ InLoop
  /\ events[idx].type # startType
  /\ Closes(Matcher, events[idx].type, endType)
  /\ MatchAdvance(MatchEvent(Matcher, idx, events[idx].type, startType, endType))

MatchOnOther ==
  /\ InLoop
  /\ events[idx].type # startType
  /\ ~Closes(Matcher, events[idx].type, endType)
  /\ MatchAdvance(MatchEvent(Matcher, idx, events[idx].type, startType, endType))

MatchReturn ==
  /\ pc = "loop"
  /\ idx > Len(events)
  /\ sessions' = FlushOpen(Matcher)
  /\ pc' = "done"
  /\ UNCHANGED <<runVars, parseVars, events, startType, endType, idx, currentStart, aggVars>>

NextMatch == MatchOnStart \/ MatchOnStop \/ MatchOnOther \/ MatchReturn

SpecMatch == InitMatch /\ [][NextMatch]_vars

(***************************************************************************)
(* aggregateByDay: the pieces of the per-date loop body.                   *)
(***************************************************************************)
\* Math.round(a / b) for b > 0: halves round up
RoundDiv(a, b) == (2 * a + b) \div (2 * b)

Indices(n) == [k \in 1..n |-> k]

\* [...events].sort((a, b) => time(a) - time(b)): a stable sort by timestamp
RECURSIVE InsertByTime(_, _)
InsertByTime(sorted, e) ==
  IF sorted = <<>> THEN <<e>>
  ELSE IF sorted[Len(sorted)].timestamp <= e.timestamp THEN Append(sorted, e)
  ELSE Append(InsertByTime(SubSeq(sorted, 1, Len(sorted) - 1), e),
              sorted[Len(sorted)])

RECURSIVE SortFrom(_, _, _)
SortFrom(evts, i, acc) ==
  IF i > Len(evts) THEN acc ELSE SortFrom(evts, i + 1, InsertByTime(acc, evts[i]))

SortUnsorted(evts) == evts
SortByTimestamp(evts) == SortFrom(evts, 1, <<>>)

\* allDates, sorted: the dates of all events (session ends are events too)
RECURSIVE SortedSeqOfSet(_)
SortedSeqOfSet(S) ==
  IF S = {} THEN <<>>
  ELSE LET m == CHOOSE x \in S : \A y \in S : x <= y
       IN  <<m>> \o SortedSeqOfSet(S \ {m})

AllDatesOfStarts(sorted, feedS, sleepS) ==
  {getDateString(sorted[feedS[k].start].timestamp) : k \in DOMAIN feedS}
    \cup {getDateString(sorted[sleepS[k].start].timestamp) : k \in DOMAIN sleepS}
AllDates(sorted, feedS, sleepS) ==
  {getDateString(sorted[i].timestamp) : i \in DOMAIN sorted}
    \cup {getDateString(sorted[feedS[k].start].timestamp) : k \in DOMAIN feedS}
    \cup {getDateString(sorted[sleepS[k].start].timestamp) : k \in DOMAIN sleepS}
    \cup {getDateString(sorted[feedS[k].end].timestamp) :
            k \in {j \in DOMAIN feedS : feedS[j].end # NoEvent}}
    \cup {getDateString(sorted[sleepS[k].end].timestamp) :
            k \in {j \in DOMAIN sleepS : sleepS[j].end # NoEvent}}

\* groupEventsByDate(sortedEvents).get(dateStr) || []
DayEventsOfAnyDate(sorted, dateStr) == sorted
DayEvents(sorted, dateStr) ==
  SelectSeq(sorted, LAMBDA e : getDateString(e.timestamp) = dateStr)

SessionDuration(sorted, s) ==
  getDurationMinutes(sorted[s.start].timestamp, sorted[s.end].timestamp)

\* sessionDateStr === dateStr && session.end
OnDateAndClosed(sorted, s, dateStr) ==
  getSessionDate(sorted[s.start].timestamp) = dateStr /\ s.end # NoEvent

\* duration > 0 && duration < 180
ValidFeedDurationInclusive(d) == d > 0 /\ d <= MaxFeedMinutes
ValidFeedDuration(d) == d > 0 /\ d < MaxFeedMinutes

\* !(duration <= 0 || duration >= 720)
ValidSleepDuration(d) == ~(d <= 0 \/ d >= MaxSleepMinutes)

CountedFeed(sorted, s, dateStr) ==
  OnDateAndClosed(sorted, s, dateStr) /\ ValidFeedDuration(SessionDuration(sorted, s))

CountedSleep(sorted, s, dateStr) ==
  OnDateAndClosed(sorted, s, dateStr) /\ ValidSleepDuration(SessionDuration(sorted, s))

MkFeeding(sorted, s) ==
  [startTime |-> formatTime(sorted[s.start].timestamp),
   endTime |-> formatTime(sorted[s.end].timestamp),
   durationMinutes |-> SessionDuration(sorted, s),
   rawMessages |-> <<sorted[s.start].rawMessage, sorted[s.end].rawMessage>>]

MkNap(sorted, s) ==
  [startTime |-> formatTime(sorted[s.start].timestamp),
   endTime |-> formatTime(sorted[s.end].timestamp),
   durationMinutes |-> SessionDuration(sorted, s),
   isNightSleep |-> isNightTime(getHours(sorted[s.start].timestamp)),
   rawMessages |-> <<sorted[s.start].rawMessage, sorted[s.end].rawMessage>>]

\* dayjs(dateStr).hour(h).startOf('hour')
HourOfDate(dateStr, h) == dateStr * MinutesPerDay + 60 * h

\* dayjs(`${dateStr}T${time}`)
DateTime(dateStr, time) == dateStr * MinutesPerDay + time

\* the if / else-if / else that puts a nap in one of the three lists
SleepGroup(startTs, dateStr) ==
  IF isNightTime(getHours(startTs)) /\ startTs < HourOfDate(dateStr, NIGHT_END_HOUR)
    THEN "morning"
  ELSE IF isNightTime(getHours(startTs)) /\ startTs > HourOfDate(dateStr, NIGHT_START_HOUR)
    THEN "evening"
  ELSE "day"

\* the test that reclassifies the last morning nap as day sleep
MorningReclassifiedOfAnyLength(naps, morning) ==
  /\ Len(morning) >= 2
  /\ LET lastMorningNap == naps[morning[Len(morning)]]
         previousMorningSleepEnd == naps[morning[Len(morning) - 1]]
         timeSincePreviousNap ==
           lastMorningNap.startTime - previousMorningSleepEnd.endTime
     IN  2 * timeSincePreviousNap > lastMorningNap.durationMinutes
MorningReclassified(naps, morning) ==
  /\ Len(morning) >= 2
  /\ LET lastMorningNap == naps[morning[Len(morning)]]
         previousMorningSleepEnd == naps[morning[Len(morning) - 1]]
         timeSincePreviousNap ==
           lastMorningNap.startTime - previousMorningSleepEnd.endTime
     IN  /\ 2 * timeSincePreviousNap > lastMorningNap.durationMinutes
         /\ lastMorningNap.durationMinutes >= MinMorningNapMinutes

\* the test that reclassifies the first evening nap as day sleep
EveningReclassified(naps, evening) ==
  /\ Len(evening) >= 2
  /\ LET firstEveningNap == naps[evening[1]]
         nextEveningNap == naps[evening[2]]
         timeUntilNextNap == nextEveningNap.startTime - firstEveningNap.endTime
     IN  2 * timeUntilNextNap > firstEveningNap.durationMinutes

\* getSessionDateTime(dateStr, time, startTime, mode)
getSessionDateTime(dateStr, time, startTime, mode) ==
  IF mode = "end" /\ time < startTime
    THEN DateTime(dateStr, time) + MinutesPerDay
    ELSE DateTime(dateStr, time)

countNightWakeUpsOfAnySleep(evts, dateStr) ==
  Cardinality({i \in DOMAIN evts :
                 /\ evts[i].type \in {"START_SLEEP", "STOP_SLEEP"}
                 /\ getDateString(evts[i].timestamp) = dateStr
                 /\ isNightTime(getHours(evts[i].timestamp))})
countNightWakeUps(evts, dateStr) ==
  Cardinality({i \in DOMAIN evts :
                 /\ evts[i].type = "STOP_SLEEP"
                 /\ getDateString(evts[i].timestamp) = dateStr
                 /\ isNightTime(getHours(evts[i].timestamp))})

\* morningSleepSessions.pop()
PopLastForgotten(list) == list
PopLast(list) == SubSeq(list, 1, Len(list) - 1)

Durations(naps, ixs) == [k \in DOMAIN ixs |-> naps[ixs[k]].durationMinutes]

\* the three nap lists after both reclassification tests; a list holds
\* positions in summary.naps (the lists share the nap objects with it)
SleepLists(sorted, valid, naps, dateStr) ==
  LET group(k) == SleepGroup(sorted[valid[k].start].timestamp, dateStr)
      all == Indices(Len(naps))
      morning0 == SelectSeq(all, LAMBDA k : group(k) = "morning")
      evening0 == SelectSeq(all, LAMBDA k : group(k) = "evening")
      day0 == SelectSeq(all, LAMBDA k : group(k) = "day")
      mre == MorningReclassified(naps, morning0)
      morning1 == IF mre THEN PopLast(morning0) ELSE morning0
      day1 == IF mre THEN Append(day0, morning0[Len(morning0)]) ELSE day0
      ere == EveningReclassified(naps, evening0)
      evening1 == IF ere THEN Tail(evening0) ELSE evening0
      day2 == IF ere THEN Append(day1, evening0[1]) ELSE day1
      flipped == (IF mre THEN {morning0[Len(morning0)]} ELSE {})
                   \cup (IF ere THEN {evening0[1]} ELSE {})
  IN  [morning |-> morning1, evening |-> evening1, day |-> day2,
       naps |-> [k \in DOMAIN naps |->
                   IF k \in flipped THEN [naps[k] EXCEPT !.isNightSleep = FALSE]
                   ELSE naps[k]]]

\* averageDayWakeDuration (the block if (daySleepSessions.length > 0))
DayWake(naps, L, dateStr, totalDaySleepTime) ==
  IF Len(L.day) > 0
    THEN LET dayTimeStart ==
               IF Len(L.morning) > 0
                 THEN getSessionDateTime(dateStr, naps[L.morning[Len(L.morning)]].endTime,
                                         0, "start")
                 ELSE HourOfDate(dateStr, NIGHT_END_HOUR)
             dayEndTime ==
               IF Len(L.evening) > 0
                 THEN getSessionDateTime(dateStr, naps[L.evening[1]].startTime, 0, "start")
                 ELSE HourOfDate(dateStr, NIGHT_START_HOUR)
             totalDayTime == dayEndTime - dayTimeStart
             totalTimeInBetweenDayNaps == totalDayTime - totalDaySleepTime
         IN  RoundDiv(totalTimeInBetweenDayNaps, Len(L.day) + 1)
    ELSE 0

\* summaries.find(s => s.date === previousDateStr)?.naps.filter(n => n.isNightSleep).slice(-1)[0]
\* as a sequence: empty when there is no such nap
PreviousDayLastNightNapUnread(done, previousDateStr) == <<>>
PreviousDayLastNightNap(done, previousDateStr) ==
  LET found == SelectSeq(done, LAMBDA x : x.date = previousDateStr)
      nightNaps == IF found = <<>> THEN <<>>
                   ELSE SelectSeq(found[1].naps, LAMBDA n : n.isNightSleep)
  IN  IF nightNaps = <<>> THEN <<>> ELSE <<nightNaps[Len(nightNaps)]>>

\* morningWakeTime (the block if (morningSleepSessions.length > 0))
MorningWakeTime(naps, L, dateStr, done) ==
  LET totalMorningSleepTime == SumSeq(Durations(naps, L.morning))
      previousDateStr == dateStr - 1
      prevNap == PreviousDayLastNightNap(done, previousDateStr)
      previousDayLastNightNapEnd ==
        IF prevNap # <<>>
          THEN getSessionDateTime(previousDateStr, prevNap[1].endTime,
                                  prevNap[1].startTime, "end")
          ELSE DateTime(dateStr, naps[L.morning[1]].startTime)
      lastMorningNapEnd == DateTime(dateStr, naps[L.morning[Len(L.morning)]].endTime)
      totalMorningTime == lastMorningNapEnd - previousDayLastNightNapEnd
  IN  totalMorningTime - totalMorningSleepTime

\* endOfDay.diff(start, 'minute') with endOfDay = 23:59:59.999 of dateStr
EndOfDayDiff(dateStr, start) == DateTime(dateStr, MinutesPerDay - 1) - start

\* eveningWakeTime (the block if (eveningSleepSessions.length > 0))
EveningWakeTime(naps, L, dateStr) ==
  LET capped(k) ==
        LET n == naps[L.evening[k]]
        IN  IF DateTime(dateStr, n.endTime) < DateTime(dateStr, n.startTime)
              THEN EndOfDayDiff(dateStr, DateTime(dateStr, n.startTime))
              ELSE n.durationMinutes
      totalEveningSleepTime == SumSeq([k \in DOMAIN L.evening |-> capped(k)])
      firstEveningNapStart == DateTime(dateStr, naps[L.evening[1]].startTime)
      totalEveningTime == EndOfDayDiff(dateStr, firstEveningNapStart)
  IN  totalEveningTime - totalEveningSleepTime

\* totalNightWakeTime (the block if (nightSleepSessions.length > 0))
TotalNightWakeTime(naps, L, dateStr, done) ==
  LET m == IF Len(L.morning) > 0 THEN MorningWakeTime(naps, L, dateStr, done) ELSE 0
      e == IF Len(L.evening) > 0 THEN EveningWakeTime(naps, L, dateStr) ELSE 0
  IN  (IF m > 0 THEN m ELSE 0) + (IF e > 0 THEN e ELSE 0)

AverageNightWakeTruncated(naps, L, dateStr, done, totalNightWakeUps) ==
  IF Len(L.morning) + Len(L.evening) > 0
     /\ totalNightWakeUps > 0
     /\ TotalNightWakeTime(naps, L, dateStr, done) > 0
    THEN TotalNightWakeTime(naps, L, dateStr, done) \div totalNightWakeUps
    ELSE 0
AverageNightWake(naps, L, dateStr, done, totalNightWakeUps) ==
  IF Len(L.morning) + Len(L.evening) > 0
     /\ totalNightWakeUps > 0
     /\ TotalNightWakeTime(naps, L, dateStr, done) > 0
    THEN RoundDiv(TotalNightWakeTime(naps, L, dateStr, done), totalNightWakeUps)
    ELSE 0

MkDiaperChangeOfOneKind(e) ==
  [time |-> formatTime(e.timestamp), type |-> "WET", rawMessage |-> e.rawMessage]
MkDiaperChange(e) ==
  [time |-> formatTime(e.timestamp), type |-> e.diaperChangeType,
   rawMessage |-> e.rawMessage]

CountSeq(s, Test(_)) == Len(SelectSeq(s, Test))

\* the last WEIGHT event of the day with a truthy weight; 0 when none
DayWeightFirst(dayEvents) ==
  LET ws == SelectSeq(dayEvents, LAMBDA e : e.type = "WEIGHT" /\ e.weight # 0)
  IN  IF ws = <<>> THEN 0 ELSE ws[1].weight
DayWeight(dayEvents) ==
  LET ws == SelectSeq(dayEvents, LAMBDA e : e.type = "WEIGHT" /\ e.weight # 0)
  IN  IF ws = <<>> THEN 0 ELSE ws[Len(ws)].weight

\* one iteration of the loop over the dates: the summary pushed for dateStr,
\* given the summaries already pushed
SummarizeDay(dateStr, sorted, feedS, sleepS, done) ==
  LET dayEvents == DayEvents(sorted, dateStr)
      feeds == SelectSeq(feedS, LAMBDA x : CountedFeed(sorted, x, dateStr))
      feedings == [k \in DOMAIN feeds |-> MkFeeding(sorted, feeds[k])]
      totalFeedingTime == SumSeq([k \in DOMAIN feedings |-> feedings[k].durationMinutes])
      valid == SelectSeq(sleepS, LAMBDA x : CountedSleep(sorted, x, dateStr))
      naps0 == [k \in DOMAIN valid |-> MkNap(sorted, valid[k])]
      L == SleepLists(sorted, valid, naps0, dateStr)
      naps == L.naps
      night == L.morning \o L.evening
      totalDaySleepTime == SumSeq(Durations(naps, L.day))
      totalNightSleepTime == SumSeq(Durations(naps, night))
      totalNightWakeUps == countNightWakeUps(sorted, dateStr)
      diapers == SelectSeq(dayEvents, LAMBDA e : e.type = "DIAPER_CHANGE")
      diaperChanges == [k \in DOMAIN diapers |-> MkDiaperChange(diapers[k])]
      comments == SelectSeq(dayEvents, LAMBDA e : e.type = "COMMENT")
  IN  [date |-> dateStr,
       totalSleepTime |-> SumSeq([k \in DOMAIN naps |-> naps[k].durationMinutes]),
       totalFeedingTime |-> totalFeedingTime,
       wetDiaperChanges |->
         CountSeq(diaperChanges, LAMBDA c : c.type \notin {"DIRTY", "WET_AND_DIRTY"}),
       dirtyDiaperChanges |-> CountSeq(diaperChanges, LAMBDA c : c.type = "DIRTY"),
       mixedDiaperChanges |-> CountSeq(diaperChanges, LAMBDA c : c.type = "WET_AND_DIRTY"),
       totalDiaperChanges |-> Len(diaperChanges),
       totalNightSleepTime |-> totalNightSleepTime,
       totalDaySleepTime |-> totalDaySleepTime,
       napSessions |-> Len(naps),
       averageDaySleepDuration |->
         IF Len(L.day) > 0 THEN RoundDiv(totalDaySleepTime, Len(L.day)) ELSE 0,
       averageDayWakeDuration |-> DayWake(naps, L, dateStr, totalDaySleepTime),
       averageInBetweenFeedsDuration |->
         IF Len(feedings) > 0
           THEN RoundDiv(MinutesPerDay - totalFeedingTime, Len(feedings) + 1)
           ELSE 0,
       averageNightSleepDuration |->
         IF Len(night) > 0 THEN RoundDiv(totalNightSleepTime, Len(night)) ELSE 0,
       averageNightWakeDuration |->
         AverageNightWake(naps, L, dateStr, done, totalNightWakeUps),
       feedingSessions |-> Len(feedings),
       totalNightWakeUps |-> totalNightWakeUps,
       feedings |-> feedings,
       naps |-> naps,
       comments |-> [k \in DOMAIN comments |->
                       [time |-> formatTime(comments[k].timestamp),
                        message |-> comments[k].rawMessage]],
       diaperChanges |-> diaperChanges,
       weight |-> DayWeight(dayEvents)]

\* summaries.sort((a, b) => a.date.localeCompare(b.date)): stable, by date
RECURSIVE InsertByDate(_, _)
InsertByDate(sorted, x) ==
  IF sorted = <<>> THEN <<x>>
  ELSE IF sorted[Len(sorted)].date <= x.date THEN Append(sorted, x)
  ELSE Append(InsertByDate(SubSeq(sorted, 1, Len(sorted) - 1), x), sorted[Len(sorted)])

RECURSIVE SortByDateFrom(_, _, _)
SortByDateFrom(xs, i, acc) ==
  IF i > Len(xs) THEN acc ELSE SortByDateFrom(xs, i + 1, InsertByDate(acc, xs[i]))

SortByDate(xs) == SortByDateFrom(xs, 1, <<>>)

RECURSIVE SummarizeDates(_, _, _, _, _)
SummarizeDates(ds, sorted, feedS, sleepS, done) ==
  IF ds = <<>> THEN done
  ELSE SummarizeDates(Tail(ds), sorted, feedS, sleepS,
                      Append(done, SummarizeDay(Head(ds), sorted, feedS, sleepS, done)))

\* the whole function, as the caller sees it
aggregateByDay(evts) ==
  LET sorted == SortByTimestamp(evts)
      feedS == matchSessions(sorted, "START_FEED", "STOP_FEED")
      sleepS == matchSessions(sorted, "START_SLEEP", "STOP_SLEEP")
  IN  SortByDate(SummarizeDates(SortedSeqOfSet(AllDates(sorted, feedS, sleepS)),
                                sorted, feedS, sleepS, <<>>))

(***************************************************************************)
(* Claims about matchSessions (checked under SpecMatch).                   *)
(***************************************************************************)
TimeOf(i) == events[i].timestamp

Sorted(evts) ==
  \A i, j \in DOMAIN evts : i < j => evts[i].timestamp <= evts[j].timestamp

OrphanStopNext == InLoop /\ events[idx].type = endType /\ currentStart = NoEvent

\* C1: a STOP event that arrives while no START of the category is open
\* produces no session and leaves the matcher state (no open start, the
\* sessions emitted so far) unchanged.
C1_OrphanStopDropped ==
  [][OrphanStopNext =>
       /\ sessions' = sessions
       /\ currentStart' = NoEvent
       /\ \A k \in DOMAIN sessions' : sessions'[k].end # idx]_vars

\* C1 witness: an orphan STOP was processed first, then a START and a STOP
\* that pair up; the orphan is in no session.
C1_Witness ==
  /\ pc = "done"
  /\ Len(events) = 3
  /\ events[1].type = endType
  /\ events[2].type = startType
  /\ events[3].type = endType
  /\ sessions = <<MkSession(2, 3)>>

SecondStartNext == InLoop /\ events[idx].type = startType /\ currentStart # NoEvent

\* C2: a START that arrives while an earlier START of the category is open
\* makes the earlier START a session with end = null before the new START
\* becomes the open one, and a START flushed that way is never the start of
\* a session that has an end.
C2_SecondStartFlushes ==
  [][/\ SecondStartNext =>
          /\ sessions' = Append(sessions, MkSession(currentStart, NoEvent))
          /\ currentStart' = idx
     /\ \A k \in DOMAIN sessions : sessions[k].end = NoEvent =>
          \A j \in DOMAIN sessions' :
            sessions'[j].start = sessions[k].start => sessions'[j].end = NoEvent]_vars

\* C2 witness: START, START, STOP: the first START is flushed with end =
\* null and the STOP closes the second one.
C2_Witness ==
  /\ pc = "done"
  /\ Len(events) = 3
  /\ events[1].type = startType
  /\ events[2].type = startType
  /\ events[3].type = endType
  /\ sessions = <<MkSession(1, NoEvent), MkSession(2, 3)>>

\* C4: on a chronologically sorted event list the sessions are in
\* non-decreasing start order and do not overlap: for consecutive sessions
\* a, b: start(a) <= start(b), and end(a) <= start(b) when a has an end.
C4_OrderedNonOverlapping ==
  Sorted(events) =>
    \A k \in 1..(Len(sessions) - 1) :
      LET a == sessions[k]
          b == sessions[k + 1]
      IN  /\ TimeOf(a.start) <= TimeOf(b.start)
          /\ a.end # NoEvent => TimeOf(a.end) <= TimeOf(b.start)

\* C4 witness: a sorted list that gave a closed session followed by
\* another session, at distinct times.
C4_Witness ==
  /\ pc = "done"
  /\ Sorted(events)
  /\ Len(sessions) >= 2
  /\ sessions[1].end # NoEvent
  /\ TimeOf(sessions[1].start) < TimeOf(sessions[2].start)

(***************************************************************************)
(* SpecAgg: calls of aggregateByDay on an arbitrary list of feed and sleep *)
(* events, in any order, one step per phase of the function and one per    *)
(* date of its loop.  The caller calls it a second time on the same list.  *)
(***************************************************************************)
AggTimes ==
  {DateTime(1, 23 * 60 + 30), DateTime(2, 30), DateTime(2, 90)}

AggInputEvents == {MkEvent(t, ts) : t \in StartStopTypes, ts \in AggTimes}

MatchIdle ==
  /\ startType = "START_FEED"
  /\ endType = "STOP_FEED"
  /\ idx = 1
  /\ currentStart = NoEvent
  /\ sessions = <<>>

AggEntry ==
  /\ sortedEvents = <<>>
  /\ feedingSessions = <<>>
  /\ sleepSessions = <<>>
  /\ dates = <<>>
  /\ summaries = <<>>

InitAgg ==
  /\ events \in SeqsUpTo(AggInputEvents, MaxEvents)
  /\ firstEvents = events
  /\ firstSummaries = <<>>
  /\ runs = 0
  /\ pc = "sort"
  /\ RunIdle
  /\ AggEntry
  /\ MatchIdle
  /\ ParseIdle

\* what the call leaves in the caller's list: [...events] sorts a copy
InputSortedInPlace(evts) == SortByTimestamp(evts)
InputAfterCall(evts) == evts

AggSort ==
  /\ pc = "sort"
  /\ sortedEvents' = SortByTimestamp(events)
  /\ events' = InputAfterCall(events)
  /\ pc' = "match"
  /\ UNCHANGED <<runVars, parseVars, matchVars, feedingSessions, sleepSessions, dates, summaries,
                 runs, firstEvents, firstSummaries>>

AggMatch ==
  /\ pc = "match"
  /\ feedingSessions' = matchSessions(sortedEvents, "START_FEED", "STOP_FEED")
  /\ sleepSessions' = matchSessions(sortedEvents, "START_SLEEP", "STOP_SLEEP")
  /\ dates' = SortedSeqOfSet(AllDates(sortedEvents, feedingSessions', sleepSessions'))
  /\ summaries' = <<>>
  /\ pc' = "days"
  /\ UNCHANGED <<runVars, parseVars, events, matchVars, sortedEvents, runs, firstEvents, firstSummaries>>

AggDay ==
  /\ pc = "days"
  /\ dates # <<>>
  /\ summaries' = Append(summaries,
                         SummarizeDay(Head(dates), sortedEvents, feedingSessions,
                                      sleepSessions, summaries))
  /\ dates' = Tail(dates)
  /\ UNCHANGED <<runVars, parseVars, events, pc, matchVars, sortedEvents, feedingSessions, sleepSessions,
                 runs, firstEvents, firstSummaries>>

AggReturn ==
  /\ pc = "days"
  /\ dates = <<>>
  /\ summaries' = SortByDate(summaries)
  /\ runs' = runs + 1
  /\ firstSummaries' = IF runs = 0 THEN summaries' ELSE firstSummaries
  /\ pc' = "done"
  /\ UNCHANGED <<runVars, parseVars, events, matchVars, sortedEvents, feedingSessions, sleepSessions,
                 dates, firstEvents>>

AggCallAgain ==
  /\ pc = "done"
  /\ runs = 1
  /\ sortedEvents' = <<>>
  /\ feedingSessions' = <<>>
  /\ sleepSessions' = <<>>
  /\ dates' = <<>>
  /\ summaries' = <<>>
  /\ pc' = "sort"
  /\ UNCHANGED <<runVars, parseVars, events, matchVars, runs, firstEvents, firstSummaries>>

NextAgg == AggSort \/ AggMatch \/ AggDay \/ AggReturn \/ AggCallAgain

SpecAgg == InitAgg /\ [][NextAgg]_vars

ClosedForward(sorted, ss) ==
  \A k \in DOMAIN ss :
    ss[k].end # NoEvent => sorted[ss[k].end].timestamp >= sorted[ss[k].start].timestamp

\* C3: for every list passed to aggregateByDay, in any input order, every
\* session the matcher builds with a non-null end has
\* end.timestamp >= start.timestamp.
C3_EndNotBeforeStart ==
  pc \in {"days", "done"} =>
    /\ ClosedForward(sortedEvents, feedingSessions)
    /\ ClosedForward(sortedEvents, sleepSessions)

\* C3 witness: an input list that is not in chronological order and gave a
\* closed feeding session that ends after it starts.
C3_Witness ==
  /\ pc = "done"
  /\ ~Sorted(events)
  /\ \E k \in DOMAIN feedingSessions :
       /\ feedingSessions[k].end # NoEvent
       /\ sortedEvents[feedingSessions[k].end].timestamp
            > sortedEvents[feedingSessions[k].start].timestamp

MaxSleepEvents == 4

SleepTimes ==
  {DateTime(1, 21 * 60), DateTime(1, 21 * 60 + 30), DateTime(1, 22 * 60),
   DateTime(1, 23 * 60), DateTime(1, 23 * 60 + 40), DateTime(2, 30),
   DateTime(2, 2 * 60), DateTime(2, 7 * 60 + 30), DateTime(2, 9 * 60)}

SleepInputEvents ==
  {MkEvent(t, ts) : t \in {"START_SLEEP", "STOP_SLEEP"}, ts \in SleepTimes}

RECURSIVE SortedSeqsUpTo(_, _)
SortedSeqsUpTo(S, n) ==
  IF n = 0 THEN {<<>>}
  ELSE LET shorter == SortedSeqsUpTo(S, n - 1)
           longest == {q \in shorter : Len(q) = n - 1}
           after(q) == {x \in S : q = <<>> \/ q[Len(q)].timestamp <= x.timestamp}
       IN  shorter \cup UNION {{Append(q, x) : x \in after(q)} : q \in longest}

InitSleep ==
  /\ events \in SortedSeqsUpTo(SleepInputEvents, MaxSleepEvents)
  /\ firstEvents = events
  /\ firstSummaries = <<>>
  /\ runs = 0
  /\ pc = "sort"
  /\ RunIdle
  /\ AggEntry
  /\ MatchIdle
  /\ ParseIdle

NextSleep == AggSort \/ AggMatch \/ AggDay \/ AggReturn

SpecSleep == InitSleep /\ [][NextSleep]_vars

\* the sleep sessions the validity filter keeps for date d, stated from the
\* matcher's output: start on d, an end, 0 < duration < 720
KeptSleep(d) ==
  {k \in DOMAIN sleepSessions :
     /\ sleepSessions[k].end # NoEvent
     /\ sortedEvents[sleepSessions[k].start].timestamp \div 1440 = d
     /\ LET dur == sortedEvents[sleepSessions[k].end].timestamp
                     - sortedEvents[sleepSessions[k].start].timestamp
        IN  0 < dur /\ dur < 720}

SleepMinutesOf(k) ==
  sortedEvents[sleepSessions[k].end].timestamp
    - sortedEvents[sleepSessions[k].start].timestamp

RECURSIVE SumSleepMinutes(_)
SumSleepMinutes(S) ==
  IF S = {} THEN 0
  ELSE LET k == CHOOSE y \in S : TRUE
       IN  SleepMinutesOf(k) + SumSleepMinutes(S \ {k})

KeptSleepMinutes(d) == SumSleepMinutes(KeptSleep(d))

\* C5: in every DaySummary totalDaySleepTime + totalNightSleepTime is the
\* sum of the durations of the sleep sessions that start on that date, have
\* an end and last strictly between 0 and 720 minutes, which is also
\* totalSleepTime: each such session is in exactly one of the two totals,
\* reclassified or not.
C5_DayPlusNightIsAllValidSleep ==
  pc \in {"days", "done"} =>
    \A i \in DOMAIN summaries :
      /\ summaries[i].totalDaySleepTime + summaries[i].totalNightSleepTime
           = KeptSleepMinutes(summaries[i].date)
      /\ summaries[i].totalSleepTime = KeptSleepMinutes(summaries[i].date)
      /\ summaries[i].napSessions = Cardinality(KeptSleep(summaries[i].date))

\* C5 witness: a day with two valid morning sessions of which the last one
\* was reclassified as day sleep, so both totals are positive.
C5_Witness ==
  /\ pc = "done"
  /\ \E i \in DOMAIN summaries :
       /\ Len(summaries[i].naps) = 2
       /\ summaries[i].naps[1].isNightSleep
       /\ ~summaries[i].naps[2].isNightSleep
       /\ summaries[i].naps[2].startTime < 60 * NIGHT_END_HOUR
       /\ summaries[i].totalDaySleepTime = summaries[i].naps[2].durationMinutes
       /\ summaries[i].totalNightSleepTime = summaries[i].naps[1].durationMinutes

(***************************************************************************)
(* The regex event extractor (parser code in fetch-date.ts).               *)
(*                                                                         *)
(* A message is the sequence of its whitespace-separated tokens, in lower  *)
(* case.  A token is a word, a time "HH:MM", a time range "HH:MM-HH:MM" or *)
(* a weight such as "3500g"; the token "deleted" stands for the phrase     *)
(* "this message was deleted".  A regular expression of the code that is   *)
(* anchored with \b on a list of words becomes membership of a token in    *)
(* that list; indexOf of a word becomes the 0-based position of the first  *)
(* such token, or -1.  The two keywords with diacritics are left out: the  *)
(* one of the dirty list can never match at the end of a word anyway (\b   *)
(* needs a word character on one side).                                    *)
(***************************************************************************)
FeedWords == {"papa", "papica", "papics", "papatil", "biberon"}
SleepWords == {"somn", "somnic", "dormit", "trezit", "adormit"}
StartWords == {"start", "stat", "incercam", "inceput", "tentativa", "continuam",
               "continuat"}
StopWords == {"stop", "gata", "terminat", "pauza", "trezit"}
DiaperWords == {"schimb", "schimbat", "schimburi"}
WetWords == {"pipi", "pisu", "pipu"}
DirtyWords == {"caca", "partz"}
WeightWords == {"cantarit", "greutate"}

Time(h, m) == [hour |-> h, minute |-> m]

\* parseInt of the digits of a time or range token
TokenTimes(tok) ==
  CASE tok = "10:00" -> <<Time(10, 0)>>
    [] tok = "10:30" -> <<Time(10, 30)>>
    [] tok = "13:00" -> <<Time(13, 0)>>
    [] tok = "23:50" -> <<Time(23, 50)>>
    [] tok = "23:10-23:40" -> <<Time(23, 10), Time(23, 40)>>
    [] OTHER -> <<>>

\* parseInt of the digits of a token \d{3,4}g
TokenGrams(tok) == CASE tok = "3500g" -> 3500 [] OTHER -> 0

StartsWithDigit(tok) == TokenTimes(tok) # <<>> \/ TokenGrams(tok) # 0

HasWord(msg, W) == \E i \in DOMAIN msg : msg[i] \in W

FirstWhere(hits) ==
  IF hits = {} THEN 0 ELSE CHOOSE i \in hits : \A j \in hits : i <= j

\* lowerMessage.indexOf(word)
indexOf(msg, word) == FirstWhere({i \in DOMAIN msg : msg[i] = word}) - 1

\* null is the empty sequence, a time is a sequence of one time
extractTimeFromMessage(msg) ==
  LET i == FirstWhere({k \in DOMAIN msg : TokenTimes(msg[k]) # <<>>})
  IN  IF i = 0 THEN <<>> ELSE <<TokenTimes(msg[i])[1]>>

\* null is the empty sequence, a range is <<start, end>>
extractTimeRange(msg) ==
  LET i == FirstWhere({k \in DOMAIN msg : Len(TokenTimes(msg[k])) = 2})
  IN  IF i = 0 THEN <<>> ELSE TokenTimes(msg[i])

\* new Date(logDate) with setHours(time.hour, time.minute, 0, 0)
combineDateTime(logDate, time) ==
  getDateString(logDate) * MinutesPerDay + 60 * time.hour + time.minute

isFeedMessage(msg) == HasWord(msg, FeedWords)
isSleepMessage(msg) == HasWord(msg, SleepWords)
isStartIndicator(msg) == HasWord(msg, StartWords)
isStopIndicator(msg) == HasWord(msg, StopWords)
isDiaperChange(msg) == HasWord(msg, DiaperWords)

getDiaperType(msg) ==
  LET hasWet == HasWord(msg, WetWords)
      hasDirty == HasWord(msg, DirtyWords)
  IN  IF hasWet /\ hasDirty THEN "DIAPER_CHANGE"
      ELSE IF hasDirty THEN "DIRTY_DIAPER_CHANGE"
      ELSE IF hasWet THEN "WET_DIAPER_CHANGE"
      ELSE "DIAPER_CHANGE"

\* null is 0
extractWeight(msg) ==
  LET i == FirstWhere({k \in DOMAIN msg : TokenGrams(msg[k]) # 0})
  IN  IF HasWord(msg, WeightWords) /\ i # 0 THEN TokenGrams(msg[i]) ELSE 0

isDeleted(msg) == HasWord(msg, {"deleted"})

\* the helper createTimestamp of parseEntry
createTimestamp(e, time) ==
  IF time # <<>> THEN combineDateTime(e.date, time[1]) ELSE e.date

MkParsed(type, ts, msg, weight) ==
  [type |-> type, timestamp |-> ts, rawMessage |-> msg, weight |-> weight,
   diaperChangeType |-> "none"]

\* an event of the given type at createTimestamp(extractedTime)
EventAt(e, type) ==
  MkParsed(type, createTimestamp(e, extractTimeFromMessage(e.message)), e.message, 0)

\* events.push of a feed event and the assignment to state.lastFeedWasStop
\* that follows it in every branch
EmitFeed(r, e, type) ==
  [events |-> Append(r.events, EventAt(e, type)),
   state |-> [r.state EXCEPT !.lastFeedWasStop = (type = "END_FEED")]]

EmitSleep(r, e, type) ==
  [events |-> Append(r.events, EventAt(e, type)),
   state |-> [r.state EXCEPT !.lastSleepWasStop = (type = "STOP_SLEEP")]]

\* the weight block
WeightBlock(r, e) ==
  IF extractWeight(e.message) # 0
    THEN [r EXCEPT !.events =
            Append(@, MkParsed("WEIGHT",
                               createTimestamp(e, extractTimeFromMessage(e.message)),
                               e.message, extractWeight(e.message)))]
    ELSE r

\* the diaper block
DiaperBlock(r, e) ==
  IF isDiaperChange(e.message)
    THEN IF HasWord(e.message, WetWords) /\ HasWord(e.message, DirtyWords)
           THEN [r EXCEPT !.events = @ \o <<EventAt(e, "WET_DIAPER_CHANGE"),
                                            EventAt(e, "DIRTY_DIAPER_CHANGE")>>]
           ELSE [r EXCEPT !.events = Append(@, EventAt(e, getDiaperType(e.message)))]
    ELSE r

\* the time-range block, feed branch
RangeFeedSetsBothFlags(r, e, range) ==
  [events |-> r.events \o
     <<MkParsed("START_FEED", combineDateTime(e.date, range[1]), e.message, 0),
       MkParsed("END_FEED", combineDateTime(e.date, range[2]), e.message, 0)>>,
   state |-> [lastFeedWasStop |-> TRUE, lastSleepWasStop |-> TRUE]]
RangeFeed(r, e, range) ==
  [events |-> r.events \o
     <<MkParsed("START_FEED", combineDateTime(e.date, range[1]), e.message, 0),
       MkParsed("END_FEED", combineDateTime(e.date, range[2]), e.message, 0)>>,
   state |-> [r.state EXCEPT !.lastFeedWasStop = TRUE]]

\* the time-range block, sleep branch
RangeSleepKeepsFlag(r, e, range) ==
  [events |-> r.events \o
     <<MkParsed("START_SLEEP", combineDateTime(e.date, range[1]), e.message, 0),
       MkParsed("STOP_SLEEP", combineDateTime(e.date, range[2]), e.message, 0)>>,
   state |-> r.state]
RangeSleep(r, e, range) ==
  [events |-> r.events \o
     <<MkParsed("START_SLEEP", combineDateTime(e.date, range[1]), e.message, 0),
       MkParsed("STOP_SLEEP", combineDateTime(e.date, range[2]), e.message, 0)>>,
   state |-> [r.state EXCEPT !.lastSleepWasStop = TRUE]]

\* the block "Handle feed events"
FeedBlock(r, e) ==
  LET msg == e.message
      isStart == isStartIndicator(msg)
      isStop == isStopIndicator(msg)
      stopFirst == \/ indexOf(msg, "stop") < indexOf(msg, "start")
                   \/ indexOf(msg, "gata") < indexOf(msg, "start")
                   \/ indexOf(msg, "terminat") < indexOf(msg, "start")
  IN  IF ~(isFeedMessage(msg) /\ ~isDiaperChange(msg)) THEN r
      ELSE IF isStart /\ isStop
        THEN LET r1 == IF stopFirst \/ (~isStart /\ isStop)
                         THEN EmitFeed(r, e, "END_FEED") ELSE r
             IN  IF isStart THEN EmitFeed(r1, e, "START_FEED") ELSE r1
      ELSE IF isStop THEN EmitFeed(r, e, "END_FEED")
      ELSE IF isStart THEN EmitFeed(r, e, "START_FEED")
      ELSE IF r.state.lastFeedWasStop THEN EmitFeed(r, e, "START_FEED")
      ELSE EmitFeed(r, e, "END_FEED")

\* /\b(somn|somnic)\s+\d/
SleepWordThenDigit(msg) ==
  \E i \in DOMAIN msg :
    i < Len(msg) /\ msg[i] \in {"somn", "somnic"} /\ StartsWithDigit(msg[i + 1])

\* the block "Handle sleep events"
SleepBlock(r, e) ==
  LET msg == e.message
      isStart == isStartIndicator(msg)
      isStop == isStopIndicator(msg)
      isTrezit == HasWord(msg, {"trezit"})
      Infinity == Len(msg) + 1
      stopFirst == indexOf(msg, "stop")
                     < (IF indexOf(msg, "start") = -1 THEN Infinity
                        ELSE indexOf(msg, "start"))
  IN  IF ~(isSleepMessage(msg) /\ ~isFeedMessage(msg)) THEN r
      ELSE IF isStart /\ isStop /\ ~isTrezit
        THEN LET r1 == IF stopFirst THEN EmitSleep(r, e, "STOP_SLEEP") ELSE r
             IN  IF isStart /\ ~isTrezit THEN EmitSleep(r1, e, "START_SLEEP") ELSE r1
      ELSE IF isStop \/ isTrezit THEN EmitSleep(r, e, "STOP_SLEEP")
      ELSE IF isStart THEN EmitSleep(r, e, "START_SLEEP")
      ELSE IF HasWord(msg, {"dormit"}) THEN EmitSleep(r, e, "STOP_SLEEP")
      ELSE IF SleepWordThenDigit(msg) THEN EmitSleep(r, e, "START_SLEEP")
      ELSE r

\* a word of A directly followed by a word of B
Adjacent(msg, A, B) ==
  \E i \in DOMAIN msg : i < Len(msg) /\ msg[i] \in A /\ msg[i + 1] \in B

hasEventNever(r, type) == FALSE
hasEvent(r, type) == \E i \in DOMAIN r.events : r.events[i].type = type

\* the block "Handle combined messages"
CombinedBlock(r, e) ==
  LET msg == e.message
      feedStop == Adjacent(msg, {"stop", "gata", "terminat"}, {"papa", "papica"})
      feedStart == Adjacent(msg, {"start"}, {"papa", "papica"})
      \* /\b(stop|trezit)\s*(somn|somnic)?\b/: the optional group may be empty
      sleepStop == HasWord(msg, {"stop", "trezit"})
      sleepStart == \/ Adjacent(msg, {"start", "incercam"}, {"somn", "somnic"})
                    \/ SleepWordThenDigit(msg)
      r1 == IF feedStop /\ ~hasEvent(r, "END_FEED")
              THEN EmitFeed(r, e, "END_FEED") ELSE r
      r2 == IF feedStart /\ ~hasEvent(r1, "START_FEED")
              THEN EmitFeed(r1, e, "START_FEED") ELSE r1
      r3 == IF sleepStop /\ ~hasEvent(r2, "STOP_SLEEP")
              THEN EmitSleep(r2, e, "STOP_SLEEP") ELSE r2
      r4 == IF sleepStart /\ ~hasEvent(r3, "START_SLEEP")
              THEN EmitSleep(r3, e, "START_SLEEP") ELSE r3
  IN  IF isFeedMessage(msg) /\ isSleepMessage(msg) THEN r4 ELSE r

\* parseEntry(entry, state): the events returned and the state it leaves
parseEntry(e, st) ==
  LET msg == e.message
      timeRange == extractTimeRange(msg)
      r0 == [events |-> <<>>, state |-> st]
      r1 == DiaperBlock(WeightBlock(r0, e), e)
  IN  IF isDeleted(msg) THEN r0
      ELSE IF timeRange # <<>> /\ isFeedMessage(msg) THEN RangeFeed(r1, e, timeRange)
      ELSE IF timeRange # <<>> /\ isSleepMessage(msg) THEN RangeSleep(r1, e, timeRange)
      ELSE CombinedBlock(SleepBlock(FeedBlock(r1, e), e), e)

(***************************************************************************)
(* SpecParse: one call of parseEntry, on any message of up to MaxTokens    *)
(* tokens of the vocabulary below and from any value of the two flags.     *)
(***************************************************************************)
MaxTokens == 3

ParseVocabulary ==
  {"papa", "somn", "dormit", "start", "stop", "schimbat", "pipi", "caca",
   "cantarit", "3500g", "deleted", "23:50", "23:10-23:40"}

\* the record's own time: 00:09 and 23:55 of day 2
RecordDates == {DateTime(2, 9), DateTime(2, 23 * 60 + 55)}

ParserStates == [lastFeedWasStop : BOOLEAN, lastSleepWasStop : BOOLEAN]

InitParse ==
  /\ state \in ParserStates
  /\ entry \in [date : RecordDates, message : SeqsUpTo(ParseVocabulary, MaxTokens)]
  /\ out = <<>>
  /\ records = <<>>
  /\ ri = 1
  /\ parsed = <<>>
  /\ lines = <<>>
  /\ li = 1
  /\ currentEntry = NoEntry
  /\ pc = "parse"
  /\ RunIdle
  /\ events = <<>>
  /\ MatchIdle
  /\ AggIdle

ParseEntry ==
  /\ pc = "parse"
  /\ out' = parseEntry(entry, state).events
  /\ state' = parseEntry(entry, state).state
  /\ pc' = "parsed"
  /\ UNCHANGED <<runVars, events, matchVars, aggVars, entry, records, ri, parsed, lineVars>>

NextParse == ParseEntry

SpecParse == InitParse /\ [][NextParse]_vars

(***************************************************************************)
(* Claims about one call of parseEntry (checked under SpecParse).          *)
(***************************************************************************)
Parsed == pc = "parsed"

OnRecordDate(time) ==
  (entry.date \div 1440) * 1440 + 60 * time.hour + time.minute

\* the message has a time range, names the feed or the sleep category and
\* has no weight and no diaper keyword
RangeCase ==
  /\ \E i \in DOMAIN entry.message : Len(TokenTimes(entry.message[i])) = 2
  /\ HasWord(entry.message, FeedWords \cup SleepWords)
  /\ ~HasWord(entry.message, WeightWords)
  /\ ~HasWord(entry.message, DiaperWords)

\* the START/STOP pair of the category the message names (feed when it
\* names both), at the two ends of the range, and the category's flag set
RangePairEmitted ==
  LET range == extractTimeRange(entry.message)
      feed == HasWord(entry.message, FeedWords)
      startT == IF feed THEN "START_FEED" ELSE "START_SLEEP"
      stopT == IF feed THEN "END_FEED" ELSE "STOP_SLEEP"
  IN  /\ Len(out) = 2
      /\ out[1].type = startT
      /\ out[1].timestamp = OnRecordDate(range[1])
      /\ out[2].type = stopT
      /\ out[2].timestamp = OnRecordDate(range[2])
      /\ out[1].rawMessage = entry.message
      /\ out[2].rawMessage = entry.message
      /\ IF feed THEN state.lastFeedWasStop ELSE state.lastSleepWasStop

DiaperTypes == {"DIAPER_CHANGE", "WET_DIAPER_CHANGE", "DIRTY_DIAPER_CHANGE"}

\* the kind a diaper event of the extractor stands for: it carries no
\* diaperChangeType, its type names the kind, and the generic type is read
\* as the unspecified kind
KindOf(e) ==
  IF e.type = "WET_DIAPER_CHANGE" THEN "WET"
  ELSE IF e.type = "DIRTY_DIAPER_CHANGE" THEN "DIRTY"
  ELSE "WET_AND_DIRTY"

\* C9: a record with a diaper-change keyword yields exactly one diaper
\* event, of kind WET_AND_DIRTY when both a wet and a dirty keyword are
\* present, DIRTY when only dirty, WET when only wet, WET_AND_DIRTY when
\* neither (stated for messages that are not deleted-message notices).
C9_OneDiaperEvent ==
  (Parsed /\ isDiaperChange(entry.message) /\ ~isDeleted(entry.message)) =>
    LET ds == SelectSeq(out, LAMBDA e : e.type \in DiaperTypes)
        wet == HasWord(entry.message, WetWords)
        dirty == HasWord(entry.message, DirtyWords)
    IN  /\ Len(ds) = 1
        /\ KindOf(ds[1]) = (IF wet /\ ~dirty THEN "WET"
                            ELSE IF dirty /\ ~wet THEN "DIRTY"
                            ELSE "WET_AND_DIRTY")

\* C10: a record posted at 00:09 whose message gives the time 23:50 yields
\* events on the calendar day before the record's date, at 23:50.
C10_MidnightRollback ==
  (/\ Parsed
   /\ entry.date % 1440 = 9
   /\ extractTimeFromMessage(entry.message) = <<Time(23, 50)>>
   /\ extractTimeRange(entry.message) = <<>>) =>
    \A i \in DOMAIN out :
      out[i].timestamp = (entry.date \div 1440 - 1) * 1440 + 23 * 60 + 50

(***************************************************************************)
(* The pipeline: parseLogFile over the records of a log, the JSON          *)
(* hand-over, and aggregateByDay over the loaded events.                   *)
(***************************************************************************)
MaxRecords == 2

RECURSIVE ParseFrom(_, _, _, _)
ParseFrom(recs, i, st, acc) ==
  IF i > Len(recs) THEN [events |-> acc, state |-> st]
  ELSE LET r == parseEntry(recs[i], st)
       IN  ParseFrom(recs, i + 1, r.state, acc \o r.events)

\* every record is parsed in file order with the flags threaded through,
\* then the events are sorted by timestamp
parseLogFile(recs) ==
  LET r == ParseFrom(recs, 1,
                     [lastFeedWasStop |-> TRUE, lastSleepWasStop |-> TRUE],
                     <<>>)
  IN  [events |-> SortByTimestamp(r.events), state |-> r.state]

\* the JSON written for the aggregator keeps timestamp (to the minute),
\* type, weight and rawMessage of every event
formatToJSON(evts) ==
  [i \in DOMAIN evts |->
     [type |-> evts[i].type,
      timestamp |-> evts[i].timestamp,
      rawMessage |-> evts[i].rawMessage,
      weight |-> evts[i].weight,
      diaperChangeType |-> "none"]]

PipeTimes == {"10:00", "10:30", "13:00"}

PipeMessages ==
  {<<ind, word, t>> : ind \in {"start", "stop"}, word \in {"papa", "somn"},
                      t \in PipeTimes}

\* the records are posted at 14:00 of day 2
PipeRecordDate == DateTime(2, 14 * 60)

InitPipe ==
  /\ records \in SeqsUpTo([date : {PipeRecordDate}, message : PipeMessages],
                          MaxRecords)
  /\ state = [lastFeedWasStop |-> TRUE, lastSleepWasStop |-> TRUE]
  /\ entry = NoEntry
  /\ out = <<>>
  /\ ri = 1
  /\ parsed = <<>>
  /\ lines = <<>>
  /\ li = 1
  /\ currentEntry = NoEntry
  /\ pc = "parseFile"
  /\ RunIdle
  /\ events = <<>>
  /\ MatchIdle
  /\ AggIdle

PipeParse ==
  /\ pc = "parseFile"
  /\ parsed' = parseLogFile(records).events
  /\ state' = parseLogFile(records).state
  /\ ri' = Len(records) + 1
  /\ pc' = "aggregate"
  /\ UNCHANGED <<runVars, events, matchVars, aggVars, entry, out, records, lineVars>>

PipeAggregate ==
  /\ pc = "aggregate"
  /\ events' = formatToJSON(parsed)
  /\ summaries' = aggregateByDay(formatToJSON(parsed))
  /\ pc' = "done"
  /\ UNCHANGED <<runVars, matchVars, sortedEvents, feedingSessions, sleepSessions,
                 dates, runs, firstEvents, firstSummaries, parseVars>>

NextPipe == PipeParse \/ PipeAggregate

SpecPipe == InitPipe /\ [][NextPipe]_vars

\* the duration d between the times of two records, when the first is an
\* explicit feed start and the second an explicit feed stop, else 0
FeedPairMinutes ==
  IF /\ Len(records) = 2
     /\ records[1].message[1] = "start" /\ records[1].message[2] = "papa"
     /\ records[2].message[1] = "stop" /\ records[2].message[2] = "papa"
  THEN (60 * TokenTimes(records[2].message[3])[1].hour
          + TokenTimes(records[2].message[3])[1].minute)
       - (60 * TokenTimes(records[1].message[3])[1].hour
          + TokenTimes(records[1].message[3])[1].minute)
  ELSE 0

\* C7: an explicit feed start at t followed by an explicit feed stop at
\* t + d on the same date, 0 < d < 180, yields for that date exactly one
\* feeding session with durationMinutes = d and feedingSessions = 1.
C7_FeedPairCounted ==
  (pc = "done" /\ FeedPairMinutes > 0 /\ FeedPairMinutes < MaxFeedMinutes) =>
    /\ Len(summaries) = 1
    /\ summaries[1].date = getDateString(PipeRecordDate)
    /\ summaries[1].feedingSessions = 1
    /\ Len(summaries[1].feedings) = 1
    /\ summaries[1].feedings[1].durationMinutes = FeedPairMinutes

(***************************************************************************)
(* Claims about the markers of a message (checked under SpecParse).        *)
(***************************************************************************)
\* the message names the category of the words W and not the one of the
\* words V, gives a single time, has no start and no stop marker, and is
\* neither a deleted notice, a weight nor a diaper message
Markerless(msg, W, V) ==
  /\ HasWord(msg, W) /\ ~HasWord(msg, V)
  /\ extractTimeFromMessage(msg) # <<>> /\ extractTimeRange(msg) = <<>>
  /\ ~HasWord(msg, StartWords) /\ ~HasWord(msg, StopWords)
  /\ ~isDeleted(msg) /\ ~HasWord(msg, WeightWords) /\ ~isDiaperChange(msg)

\* one event of the given type comes out and the flag toggles
Toggled(wasStop, isStop, startT, stopT) ==
  /\ Len(out') = 1
  /\ out'[1].type = (IF wasStop THEN startT ELSE stopT)
  /\ isStop = ~wasStop

FeedToggles ==
  (pc = "parse" /\ pc' = "parsed" /\ Markerless(entry.message, FeedWords, SleepWords))
    => Toggled(state.lastFeedWasStop, state'.lastFeedWasStop,
               "START_FEED", "END_FEED")

SleepToggles ==
  (pc = "parse" /\ pc' = "parsed" /\ Markerless(entry.message, SleepWords, FeedWords))
    => Toggled(state.lastSleepWasStop, state'.lastSleepWasStop,
               "START_SLEEP", "STOP_SLEEP")

\* C11: for each category, a record that names the category with a time
\* but no start or stop marker emits START and sets the flag to false when
\* the flag is true, and emits STOP and sets the flag to true when the flag
\* is false.
C11_ImplicitToggle == [][FeedToggles /\ SleepToggles]_vars
\* the message names the category of the words W and not the one of the
\* words V and has a start keyword and a stop keyword
BothMarkers(msg, W, V) ==
  /\ HasWord(msg, W) /\ ~HasWord(msg, V)
  /\ HasWord(msg, StartWords) /\ HasWord(msg, StopWords)
  /\ extractTimeRange(msg) = <<>>
  /\ ~isDeleted(msg) /\ ~HasWord(msg, WeightWords) /\ ~isDiaperChange(msg)

StopKeywordFirst(msg) ==
  FirstWhere({i \in DOMAIN msg : msg[i] \in StopWords})
    < FirstWhere({i \in DOMAIN msg : msg[i] \in StartWords})

\* both events come out in the order of the keywords and the flag reflects
\* the last of them
BothEmittedInOrder(msg, isStop, startT, stopT) ==
  /\ Len(out) = 2
  /\ out[1].type = (IF StopKeywordFirst(msg) THEN stopT ELSE startT)
  /\ out[2].type = (IF StopKeywordFirst(msg) THEN startT ELSE stopT)
  /\ isStop = ~StopKeywordFirst(msg)

\* C12: when a message of one category contains both a start keyword and a
\* stop keyword, a START and a STOP event of that category are emitted in
\* the order of the keywords in the text, and the category's flag afterwards
\* reflects the event emitted last.
C12_BothInTextOrder ==
  /\ (Parsed /\ BothMarkers(entry.message, FeedWords, SleepWords))
       => BothEmittedInOrder(entry.message, state.lastFeedWasStop,
                             "START_FEED", "END_FEED")
  /\ (Parsed /\ BothMarkers(entry.message, SleepWords, FeedWords))
       => BothEmittedInOrder(entry.message, state.lastSleepWasStop,
                             "START_SLEEP", "STOP_SLEEP")

(***************************************************************************)
(* SpecLines: the loop of parseLogFile over the lines of a file.  A line   *)
(* is blank (empty or white space only), a header line that parseLogLine   *)
(* matches (with the date and the trimmed message it returns) or any other *)
(* text (with its trimmed tokens).  `records` collects the entries in the  *)
(* order in which they are handed to parseEntry.                           *)
(***************************************************************************)
MaxLines == 3

BlankLine == [kind |-> "blank", date |-> 0, message |-> <<>>]
HeaderLine(date, msg) == [kind |-> "header", date |-> date, message |-> msg]
TextLine(msg) == [kind |-> "text", date |-> 0, message |-> msg]

\* parseLogLine(trimmedLine): the entry, or NoEntry for null
parseLogLine(line) ==
  IF line.kind = "header" THEN [date |-> line.date, message |-> line.message]
  ELSE NoEntry

\* currentEntry.message += ' ' + trimmedLine: the tokens of the line follow
\* those of the message, separated from them by a blank
AppendLine(e, line) == [e EXCEPT !.message = @ \o line.message]

\* "Process previous entry if exists": parseEntry, events.push(...entryEvents)
ProcessEntrySkipsEmpty(e, r) ==
  IF e = NoEntry \/ e.message = <<>> THEN r
  ELSE LET q == parseEntry(e, r.state)
       IN  [events |-> r.events \o q.events, state |-> q.state,
            records |-> Append(r.records, e), out |-> q.events, entry |-> e]
ProcessEntry(e, r) ==
  IF e = NoEntry THEN r
  ELSE LET q == parseEntry(e, r.state)
       IN  [events |-> r.events \o q.events, state |-> q.state,
            records |-> Append(r.records, e), out |-> q.events, entry |-> e]

LineDates == {DateTime(2, 14 * 60), DateTime(2, 15 * 60)}
HeaderMessages == {<<>>, <<"papa">>, <<"start", "somn", "10:00">>}
TextMessages == {<<"10:30">>, <<"stop">>}

InputLines ==
  {BlankLine}
    \cup {HeaderLine(d, m) : d \in LineDates, m \in HeaderMessages}
    \cup {TextLine(m) : m \in TextMessages}

InitLines ==
  /\ lines \in SeqsUpTo(InputLines, MaxLines)
  /\ li = 1
  /\ currentEntry = NoEntry
  /\ state = [lastFeedWasStop |-> TRUE, lastSleepWasStop |-> TRUE]
  /\ entry = NoEntry
  /\ out = <<>>
  /\ records = <<>>
  /\ ri = 1
  /\ parsed = <<>>
  /\ pc = "lines"
  /\ RunIdle
  /\ events = <<>>
  /\ MatchIdle
  /\ AggIdle

Processing == [events |-> parsed, state |-> state, records |-> records,
               out |-> out, entry |-> entry]

Processed(r) ==
  /\ parsed' = r.events
  /\ state' = r.state
  /\ records' = r.records
  /\ out' = r.out
  /\ entry' = r.entry

InLines == pc = "lines" /\ li <= Len(lines)

\* if (!trimmedLine) continue
LineBlank ==
  /\ InLines
  /\ lines[li].kind = "blank"
  /\ li' = li + 1
  /\ UNCHANGED <<runVars, events, pc, matchVars, aggVars, state, entry, out, records, ri,
                 parsed, lines, currentEntry>>

\* if (parsed) { process the previous entry; currentEntry = parsed }
LineHeader ==
  /\ InLines
  /\ lines[li].kind = "header"
  /\ Processed(ProcessEntry(currentEntry, Processing))
  /\ currentEntry' = parseLogLine(lines[li])
  /\ li' = li + 1
  /\ UNCHANGED <<runVars, events, pc, matchVars, aggVars, ri, lines>>

\* else if (currentEntry) { currentEntry.message += ' ' + trimmedLine }
LineText ==
  /\ InLines
  /\ lines[li].kind = "text"
  /\ currentEntry' = IF currentEntry # NoEntry
                       THEN AppendLine(currentEntry, lines[li])
                       ELSE currentEntry
  /\ li' = li + 1
  /\ UNCHANGED <<runVars, events, pc, matchVars, aggVars, state, entry, out, records, ri,
                 parsed, lines>>

\* after the loop: process the last entry, sort the events, return
LinesReturn ==
  /\ pc = "lines"
  /\ li > Len(lines)
  /\ LET r == ProcessEntry(currentEntry, Processing)
     IN  Processed([r EXCEPT !.events = SortByTimestamp(@)])
  /\ pc' = "done"
  /\ UNCHANGED <<runVars, events, matchVars, aggVars, ri, lineVars>>

NextLines == LineBlank \/ LineHeader \/ LineText \/ LinesReturn

SpecLines == InitLines /\ [][NextLines]_vars
(***************************************************************************)
(* Claims about the line loop (checked under SpecLines).                   *)
(***************************************************************************)
\* a line break inside a message, where the tokens of a message are
\* otherwise separated by blanks
LineBreak == "\n"

HeaderIndices ==
  SelectSeq([i \in 1..Len(lines) |-> i], LAMBDA i : lines[i].kind = "header")

\* the text lines from position i up to the next header line, each preceded
\* by the separator sep
RECURSIVE Continuation(_, _)
Continuation(i, sep) ==
  IF i > Len(lines) \/ lines[i].kind = "header" THEN <<>>
  ELSE IF lines[i].kind = "blank" THEN Continuation(i + 1, sep)
  ELSE sep \o lines[i].message \o Continuation(i + 1, sep)

\* one record per header line, in document order, whose message is the
\* header's message followed by its continuation lines
MergedRecords(sep) ==
  [k \in DOMAIN HeaderIndices |->
     [date |-> lines[HeaderIndices[k]].date,
      message |-> lines[HeaderIndices[k]].message
                    \o Continuation(HeaderIndices[k] + 1, sep)]]

\* C13: every non-blank line that does not match the header pattern and
\* follows a header line is appended, with a separating line break, to the
\* message of the most recent header's record, and that record is extracted
\* only once, after all its continuation lines.
C13_ContinuationAppended ==
  pc = "done" => records = MergedRecords(<<LineBreak>>)
\* a blank line, or a line without header while no record is open
Dropped ==
  /\ InLines
  /\ \/ lines[li].kind = "blank"
     \/ lines[li].kind = "text" /\ currentEntry = NoEntry

\* C14: parseLogFile never fails on malformed input: blank lines are
\* skipped, lines without header before the first header produce no record
\* and no event, and the number of records extracted equals the number of
\* lines that match the header pattern.
C14_MalformedInputTolerated ==
  /\ [](pc = "lines" => ENABLED NextLines)
  /\ [][Dropped => UNCHANGED <<currentEntry, records, parsed, state>>]_vars
  /\ [](pc = "done" =>
          /\ Len(records) = Len(HeaderIndices)
          /\ \A k \in DOMAIN records : records[k].date = lines[HeaderIndices[k]].date
          /\ (HeaderIndices = <<>> => parsed = <<>>))

\* C14 witness: a file of a line without header, a blank line and a header
\* line has been read into one record, the header's
C14_Witness ==
  /\ pc = "done"
  /\ Len(lines) = 3
  /\ lines[1].kind = "text" /\ lines[2].kind = "blank" /\ lines[3].kind = "header"
  /\ records = <<[date |-> lines[3].date, message |-> lines[3].message]>>
(***************************************************************************)
(* Claims about the summaries of a call (checked under SpecAgg).           *)
(***************************************************************************)
InputDates == {getDateString(events[k].timestamp) : k \in DOMAIN events}

\* C15: aggregateByDay returns exactly one DaySummary for each calendar
\* date on which some input event (or some session start or end) has its
\* timestamp, no summary for any other date, and the summaries are in
\* strictly ascending date order.
C15_OneSummaryPerDate ==
  pc = "done" =>
    /\ {summaries[i].date : i \in DOMAIN summaries} = InputDates
    /\ Len(summaries) = Cardinality(InputDates)
    /\ \A i, j \in DOMAIN summaries :
         i < j => summaries[i].date < summaries[j].date

\* C15 witness: a list whose first event is on the later of two dates, the
\* earlier date having a stop event only, has two summaries.
C15_Witness ==
  /\ pc = "done"
  /\ Len(events) = 2
  /\ getDateString(events[1].timestamp) > getDateString(events[2].timestamp)
  /\ events[2].type = "STOP_SLEEP"
  /\ Len(summaries) = 2
  /\ summaries[1].date = getDateString(events[2].timestamp)
\* the event at position k of sortedEvents is the start of a session
\* without end
Unterminated(k) ==
  \E ss \in {feedingSessions, sleepSessions} :
    \E n \in DOMAIN ss : ss[n].start = k /\ ss[n].end = NoEvent

RemoveAt(evts, k) == SubSeq(evts, 1, k - 1) \o SubSeq(evts, k + 1, Len(evts))

\* no session in the lists and every total, count and average zero
NothingCounted(sm) ==
  /\ sm.feedings = <<>> /\ sm.naps = <<>>
  /\ sm.totalSleepTime = 0 /\ sm.totalFeedingTime = 0
  /\ sm.totalNightSleepTime = 0 /\ sm.totalDaySleepTime = 0
  /\ sm.napSessions = 0 /\ sm.feedingSessions = 0
  /\ sm.totalNightWakeUps = 0
  /\ sm.averageDaySleepDuration = 0 /\ sm.averageDayWakeDuration = 0
  /\ sm.averageInBetweenFeedsDuration = 0
  /\ sm.averageNightSleepDuration = 0 /\ sm.averageNightWakeDuration = 0
  /\ sm.totalDiaperChanges = 0 /\ sm.wetDiaperChanges = 0
  /\ sm.dirtyDiaperChanges = 0 /\ sm.mixedDiaperChanges = 0

\* the summaries are those of the list without its k-th event, but for a
\* summary with nothing counted on a date that only that event is on
SameWithout(k) ==
  LET rest == aggregateByDay(RemoveAt(sortedEvents, k))
  IN  \A i \in DOMAIN summaries :
        IF \E j \in DOMAIN rest : rest[j].date = summaries[i].date
          THEN \E j \in DOMAIN rest : rest[j] = summaries[i]
          ELSE NothingCounted(summaries[i])

\* C16: an unterminated session (a START with no matching STOP) contributes
\* nothing to any numeric field of any DaySummary: it adds no entry to
\* feedings or naps and does not change any total, count or average.
C16_UnterminatedNotCounted ==
  pc = "done" =>
    \A k \in DOMAIN sortedEvents : Unterminated(k) => SameWithout(k)

\* C16 witness: a night with a sleep start that is never stopped, followed
\* by a sleep session that is counted.
C16_Witness ==
  /\ pc = "done"
  /\ Len(sortedEvents) = 3
  /\ sortedEvents[1].type = "START_SLEEP" /\ Unterminated(1)
  /\ \E i \in DOMAIN summaries : summaries[i].napSessions = 1
(***************************************************************************)
(* SpecFeed: one call of aggregateByDay on a sorted list of feed events    *)
(* whose distances are 0, 1, 179 and 180 minutes and more, one of them     *)
(* over midnight.                                                          *)
(***************************************************************************)
MaxFeedEvents == 4

FeedTimes ==
  {DateTime(1, 10 * 60), DateTime(1, 12 * 60 + 59), DateTime(1, 13 * 60),
   DateTime(1, 23 * 60), DateTime(2, 30)}

FeedInputEvents ==
  {MkEvent(t, ts) : t \in {"START_FEED", "STOP_FEED"}, ts \in FeedTimes}

InitFeed ==
  /\ events \in SortedSeqsUpTo(FeedInputEvents, MaxFeedEvents)
  /\ firstEvents = events
  /\ firstSummaries = <<>>
  /\ runs = 0
  /\ pc = "sort"
  /\ RunIdle
  /\ AggEntry
  /\ MatchIdle
  /\ ParseIdle

NextFeed == AggSort \/ AggMatch \/ AggDay \/ AggReturn

SpecFeed == InitFeed /\ [][NextFeed]_vars

FeedMinutesOf(k) ==
  sortedEvents[feedingSessions[k].end].timestamp
    - sortedEvents[feedingSessions[k].start].timestamp

\* the closed feeding sessions of the matcher that start on date d
ClosedFeeds(d) ==
  {k \in DOMAIN feedingSessions :
     /\ feedingSessions[k].end # NoEvent
     /\ sortedEvents[feedingSessions[k].start].timestamp \div 1440 = d}

\* those of them that last more than 0 and less than 180 minutes
KeptFeeds(d) == {k \in ClosedFeeds(d) : 0 < FeedMinutesOf(k) /\ FeedMinutesOf(k) < 180}

RECURSIVE SumFeedMinutes(_)
SumFeedMinutes(S) ==
  IF S = {} THEN 0
  ELSE LET k == CHOOSE y \in S : TRUE
       IN  FeedMinutesOf(k) + SumFeedMinutes(S \ {k})

\* r is a / b rounded to the nearest integer, halves up
IsRounded(r, a, b) == 2 * b * r <= 2 * a + b /\ 2 * a + b < 2 * b * (r + 1)

\* C17: a closed feeding session is counted on the date of its start if and
\* only if its duration d satisfies 0 < d < 180 minutes; a session outside
\* that range changes neither totalFeedingTime nor feedingSessions, and the
\* other sessions of the day are counted unaffected.  When
\* feedingSessions > 0, averageInBetweenFeedsDuration =
\* round((1440 - totalFeedingTime) / (feedingSessions + 1)).
C17_FeedingRollup ==
  pc \in {"days", "done"} =>
    \A i \in DOMAIN summaries :
      LET sm == summaries[i]
      IN  /\ sm.feedingSessions = Cardinality(KeptFeeds(sm.date))
          /\ Len(sm.feedings) = sm.feedingSessions
          /\ sm.totalFeedingTime = SumFeedMinutes(KeptFeeds(sm.date))
          /\ sm.feedingSessions > 0 =>
               IsRounded(sm.averageInBetweenFeedsDuration,
                         1440 - sm.totalFeedingTime, sm.feedingSessions + 1)

\* C17 witness: a day with a session of 180 minutes, which is not counted,
\* and a session of 90 minutes over midnight, which is counted on the day
\* of its start; the average is round(1350 / 2).
C17_Witness ==
  /\ pc = "done"
  /\ Len(summaries) = 2
  /\ \E k \in ClosedFeeds(1) : FeedMinutesOf(k) = 180
  /\ summaries[1].feedingSessions = 1
  /\ summaries[1].totalFeedingTime = 90
  /\ summaries[1].averageInBetweenFeedsDuration = 675
  /\ summaries[2].feedingSessions = 0
(***************************************************************************)
(* SpecNight: one call of aggregateByDay on a sorted list of sleep events  *)
(* of one day, with starts in the morning part of the night, in the day    *)
(* hours and in the evening part of the night.                             *)
(***************************************************************************)
MaxNightEvents == 4

NightTimes ==
  {DateTime(1, 30), DateTime(1, 2 * 60), DateTime(1, 7 * 60 + 30),
   DateTime(1, 9 * 60), DateTime(1, 20 * 60 + 30), DateTime(1, 21 * 60 + 30),
   DateTime(1, 22 * 60), DateTime(1, 23 * 60), DateTime(1, 23 * 60 + 30)}

NightInputEvents ==
  {MkEvent(t, ts) : t \in {"START_SLEEP", "STOP_SLEEP"}, ts \in NightTimes}

InitNight ==
  /\ events \in SortedSeqsUpTo(NightInputEvents, MaxNightEvents)
  /\ firstEvents = events
  /\ firstSummaries = <<>>
  /\ runs = 0
  /\ pc = "sort"
  /\ RunIdle
  /\ AggEntry
  /\ MatchIdle
  /\ ParseIdle

NextNight == AggSort \/ AggMatch \/ AggDay \/ AggReturn

SpecNight == InitNight /\ [][NextNight]_vars

\* the hour of the start of a listed session lies in the night interval
StartsAtNight(n) ==
  n.startTime \div 60 >= NIGHT_START_HOUR \/ n.startTime \div 60 < NIGHT_END_HOUR

StartsInMorning(n) == n.startTime < 60 * NIGHT_END_HOUR
StartsInEvening(n) == n.startTime > 60 * NIGHT_START_HOUR

\* the k-th listed session is the last of at least two that start in the
\* morning part of the night, or the first of at least two that start in
\* the evening part
AtGroupBoundary(naps, k) ==
  \/ /\ StartsInMorning(naps[k])
     /\ \E j \in DOMAIN naps : j < k /\ StartsInMorning(naps[j])
     /\ \A j \in DOMAIN naps : j > k => ~StartsInMorning(naps[j])
  \/ /\ StartsInEvening(naps[k])
     /\ \E j \in DOMAIN naps : j > k /\ StartsInEvening(naps[j])
     /\ \A j \in DOMAIN naps : j < k => ~StartsInEvening(naps[j])

\* C18 as stated: a valid sleep session is classified as night sleep if and
\* only if the hour of its start lies in the night interval.
C18_Original ==
  pc \in {"days", "done"} =>
    \A i \in DOMAIN summaries : \A k \in DOMAIN summaries[i].naps :
      summaries[i].naps[k].isNightSleep <=> StartsAtNight(summaries[i].naps[k])

\* C18 (amended): a valid sleep session is night sleep only if the hour of
\* its start lies in the night interval, and a valid session whose start
\* hour lies in the night interval is night sleep unless it is the session
\* at the boundary of its group that the reclassification turned into day
\* sleep; the minutes it spends in the night or the day play no part.
C18_NightByStartHour ==
  pc \in {"days", "done"} =>
    \A i \in DOMAIN summaries : \A k \in DOMAIN summaries[i].naps :
      LET naps == summaries[i].naps
      IN  /\ naps[k].isNightSleep => StartsAtNight(naps[k])
          /\ (StartsAtNight(naps[k]) /\ ~naps[k].isNightSleep)
               => AtGroupBoundary(naps, k)

\* C18 witness: a session from 07:30 to 09:00, mostly in the day, is night
\* sleep and a session from 20:30 to 23:00, mostly in the night, is not.
C18_Witness ==
  /\ pc = "done"
  /\ Len(summaries) = 1
  /\ Len(summaries[1].naps) = 2
  /\ summaries[1].naps[1].startTime = 7 * 60 + 30
  /\ summaries[1].naps[1].durationMinutes = 90
  /\ summaries[1].naps[1].isNightSleep
  /\ summaries[1].naps[2].startTime = 20 * 60 + 30
  /\ summaries[1].naps[2].durationMinutes = 150
  /\ ~summaries[1].naps[2].isNightSleep
(***************************************************************************)
(* Claims about the groups of night sleep (checked under SpecSleep).       *)
(***************************************************************************)
NapMinutes(naps, night) ==
  LET sel == SelectSeq(naps, LAMBDA n : n.isNightSleep = night)
  IN  SumSeq([k \in DOMAIN sel |-> sel[k].durationMinutes])

\* C19: every night-sleep session of a day is in exactly one of the morning
\* group and the evening group, so that totalNightSleepTime is the sum of
\* the durations of the day's night-sleep sessions; in particular a session
\* that starts exactly at nightStart:00 is counted in totalNightSleepTime.
C19_NightSessionsGrouped ==
  pc \in {"days", "done"} =>
    \A i \in DOMAIN summaries :
      /\ summaries[i].totalNightSleepTime = NapMinutes(summaries[i].naps, TRUE)
      /\ summaries[i].totalDaySleepTime = NapMinutes(summaries[i].naps, FALSE)
(***************************************************************************)
(* SpecMorning: one call of aggregateByDay on a list of sleep events in    *)
(* the morning part of one night, no two at the same minute, at distances  *)
(* that fall on both sides of the two thresholds of the morning            *)
(* reclassification.                                                       *)
(***************************************************************************)
MaxMorningEvents == 6

MorningTimes ==
  {DateTime(1, 30), DateTime(1, 40), DateTime(1, 45), DateTime(1, 70),
   DateTime(1, 100), DateTime(1, 120), DateTime(1, 150)}

RECURSIVE StrictSeqsUpTo(_, _)
StrictSeqsUpTo(S, n) ==
  IF n = 0 THEN {<<>>}
  ELSE LET shorter == StrictSeqsUpTo(S, n - 1)
           longest == {q \in shorter : Len(q) = n - 1}
           after(q) == {x \in S : q = <<>> \/ q[Len(q)].timestamp < x.timestamp}
       IN  shorter \cup UNION {{Append(q, x) : x \in after(q)} : q \in longest}

MorningInputEvents ==
  {MkEvent(t, ts) : t \in {"START_SLEEP", "STOP_SLEEP"}, ts \in MorningTimes}

InitMorning ==
  /\ events \in StrictSeqsUpTo(MorningInputEvents, MaxMorningEvents)
  /\ firstEvents = events
  /\ firstSummaries = <<>>
  /\ runs = 0
  /\ pc = "sort"
  /\ RunIdle
  /\ AggEntry
  /\ MatchIdle
  /\ ParseIdle

NextMorning == AggSort \/ AggMatch \/ AggDay \/ AggReturn

SpecMorning == InitMorning /\ [][NextMorning]_vars
\* the durations of the listed sessions
MinutesOf(naps) == SumSeq([k \in DOMAIN naps |-> naps[k].durationMinutes])

\* there are at least two morning sessions, the last one lasts 30 minutes
\* or more and the gap since the end of the one before it is more than half
\* of its duration
LastMorningQualifies(m) ==
  /\ Len(m) >= 2
  /\ m[Len(m)].durationMinutes >= 30
  /\ 2 * (m[Len(m)].startTime - m[Len(m) - 1].endTime) > m[Len(m)].durationMinutes

\* C20: when a day has at least two morning sessions and the last one has
\* duration >= 30 minutes and a gap since the end of the previous morning
\* session greater than half its own duration, that last session gets
\* isNightSleep = false, moves to the day-sleep group and is excluded from
\* totalNightSleepTime; in every other case no morning session is
\* reclassified, and at most one morning session is reclassified per day.
C20_MorningReclassification ==
  pc \in {"days", "done"} =>
    \A i \in DOMAIN summaries :
      LET naps == summaries[i].naps
          m == SelectSeq(naps, StartsInMorning)
          others == SelectSeq(naps, LAMBDA n : ~StartsInMorning(n))
          moved == IF LastMorningQualifies(m) THEN {Len(m)} ELSE {}
          kept == SelectSeq(m, LAMBDA n : n.isNightSleep)
      IN  /\ \A k \in DOMAIN m : m[k].isNightSleep <=> k \notin moved
          /\ summaries[i].totalNightSleepTime
               = MinutesOf(kept) + NapMinutes(others, TRUE)
          /\ summaries[i].totalDaySleepTime
               = MinutesOf(m) - MinutesOf(kept) + NapMinutes(others, FALSE)

\* C20 witness: three morning sessions of which the second and the third
\* both last 30 minutes after a gap of more than 15; only the third is
\* reclassified.
C20_Witness ==
  /\ pc = "done"
  /\ Len(summaries) = 1
  /\ Len(summaries[1].naps) = 3
  /\ LastMorningQualifies(SubSeq(summaries[1].naps, 1, 2))
  /\ LastMorningQualifies(summaries[1].naps)
  /\ summaries[1].naps[1].isNightSleep
  /\ summaries[1].naps[2].isNightSleep
  /\ ~summaries[1].naps[3].isNightSleep
  /\ summaries[1].totalDaySleepTime = summaries[1].naps[3].durationMinutes
(***************************************************************************)
(* Claims about the evening group (checked under SpecSleep).               *)
(***************************************************************************)
\* the session starts at or after nightStart:00 of its day
StartsFromNightStart(n) == n.startTime >= 60 * NIGHT_START_HOUR

\* there are at least two evening sessions and the gap from the end of the
\* first to the start of the second is more than half of the first one's
\* duration
FirstEveningQualifies(e) ==
  /\ Len(e) >= 2
  /\ 2 * (e[2].startTime - e[1].endTime) > e[1].durationMinutes

\* C21: when a day has at least two evening sessions and the gap from the
\* end of the first to the start of the second is greater than half the
\* first session's duration, the first evening session is reclassified as
\* day sleep (isNightSleep = false, counted in totalDaySleepTime);
\* otherwise no evening session is reclassified, and at most one is
\* reclassified per day.
C21_EveningReclassification ==
  pc \in {"days", "done"} =>
    \A i \in DOMAIN summaries :
      LET naps == summaries[i].naps
          e == SelectSeq(naps, StartsFromNightStart)
          others == SelectSeq(naps, LAMBDA n : ~StartsFromNightStart(n))
          moved == IF FirstEveningQualifies(e) THEN {1} ELSE {}
          kept == SelectSeq(e, LAMBDA n : n.isNightSleep)
      IN  /\ \A k \in DOMAIN e : e[k].isNightSleep <=> k \notin moved
          /\ summaries[i].totalDaySleepTime
               = MinutesOf(e) - MinutesOf(kept) + NapMinutes(others, FALSE)
(***************************************************************************)
(* Claims about the night wake-ups (checked under SpecSleep).              *)
(***************************************************************************)
\* the positions of the STOP_SLEEP events of a date whose hour is in the
\* night interval
NightStops(dateStr) ==
  {k \in DOMAIN sortedEvents :
     LET ts == sortedEvents[k].timestamp
         hour == (ts % MinutesPerDay) \div 60
     IN  /\ sortedEvents[k].type = "STOP_SLEEP"
         /\ ts \div MinutesPerDay = dateStr
         /\ (hour >= NIGHT_START_HOUR \/ hour < NIGHT_END_HOUR)}

\* C22: totalNightWakeUps of day D equals the number of STOP_SLEEP events
\* whose timestamp is on D and whose hour is in the night interval, whether
\* or not the event closes a session and whatever the classification of the
\* session it closes; a stop after midnight of a sleep that started on D-1
\* counts for D, not D-1.
C22_NightWakeUpsCounted ==
  pc \in {"days", "done"} =>
    \A i \in DOMAIN summaries :
      summaries[i].totalNightWakeUps
        = Cardinality(NightStops(summaries[i].date))

\* C22 witness: an orphan stop in the evening of the first day counts for
\* it, and the stop after midnight of the sleep started that evening counts
\* for the second day, whose summary has no nap.
C22_Witness ==
  /\ pc = "done"
  /\ Len(sortedEvents) = 3 /\ Len(summaries) = 2
  /\ sortedEvents[1].type = "STOP_SLEEP"
  /\ Len(summaries[1].naps) = 1 /\ summaries[1].totalNightWakeUps = 1
  /\ summaries[2].naps = <<>> /\ summaries[2].totalNightWakeUps = 1
(***************************************************************************)
(* Claims about the night-wake time (checked under SpecSleep).  They are   *)
(* stated on the summaries a call returns.                                 *)
(***************************************************************************)
\* the naps of a summary that are left in the morning group and in the
\* evening group
MorningNaps(sm) ==
  SelectSeq(sm.naps, LAMBDA n : n.isNightSleep /\ n.startTime < 60 * NIGHT_END_HOUR)

EveningNaps(sm) ==
  SelectSeq(sm.naps, LAMBDA n : n.isNightSleep /\ n.startTime > 60 * NIGHT_START_HOUR)

\* the naps with isNightSleep = true of the returned summary of a date;
\* empty when the date has no summary
NightNapsOf(dateStr) ==
  LET found == {i \in DOMAIN summaries : summaries[i].date = dateStr}
  IN  IF found = {} THEN <<>>
      ELSE SelectSeq(summaries[CHOOSE i \in found : TRUE].naps,
                     LAMBDA n : n.isNightSleep)

\* the instant the morning of a day is measured from
MorningReference(sm) ==
  LET prev == NightNapsOf(sm.date - 1)
      last == prev[Len(prev)]
  IN  IF prev = <<>>
        THEN sm.date * MinutesPerDay + MorningNaps(sm)[1].startTime
        ELSE IF last.endTime < last.startTime
          THEN sm.date * MinutesPerDay + last.endTime
          ELSE (sm.date - 1) * MinutesPerDay + last.endTime

MorningWake(sm) ==
  LET m == MorningNaps(sm)
  IN  IF m = <<>> THEN 0
      ELSE LET w == sm.date * MinutesPerDay + m[Len(m)].endTime
                      - MorningReference(sm) - MinutesOf(m)
           IN  IF w > 0 THEN w ELSE 0

\* the minutes from the first evening nap to 23:59 that are not slept
EveningWake(sm) ==
  LET e == EveningNaps(sm)
      slept(n) == IF n.endTime < n.startTime
                    THEN MinutesPerDay - 1 - n.startTime
                    ELSE n.durationMinutes
  IN  IF e = <<>> THEN 0
      ELSE LET w == MinutesPerDay - 1 - e[1].startTime
                      - SumSeq([k \in DOMAIN e |-> slept(e[k])])
           IN  IF w > 0 THEN w ELSE 0

\* C23: the morning night-wake time of day D is computed from the end of
\* the last nap with isNightSleep = true of the summary of D-1 (taken on D
\* when that nap crossed midnight); when no summary for D-1 exists or it has
\* no night nap, the start of D's first morning nap is used instead.  The
\* D-1 summary read is the final one: the value follows from the summaries
\* returned.
C23_MorningWakeFromPreviousDay ==
  pc = "done" =>
    \A i \in DOMAIN summaries :
      LET sm == summaries[i]
      IN  (MorningNaps(sm) # <<>> /\ sm.totalNightWakeUps > 0) =>
            IF MorningWake(sm) + EveningWake(sm) > 0
              THEN IsRounded(sm.averageNightWakeDuration,
                             MorningWake(sm) + EveningWake(sm),
                             sm.totalNightWakeUps)
              ELSE sm.averageNightWakeDuration = 0

\* C23 witness: the night nap of the first day ends after midnight and the
\* morning nap of the second day is measured from that end.
C23_Witness ==
  /\ pc = "done"
  /\ Len(summaries) = 2
  /\ LET prev == NightNapsOf(summaries[2].date - 1)
     IN  /\ prev # <<>>
         /\ prev[Len(prev)].endTime < prev[Len(prev)].startTime
  /\ MorningNaps(summaries[2]) # <<>>
  /\ MorningWake(summaries[2]) > 0
  /\ summaries[2].averageNightWakeDuration = MorningWake(summaries[2])
\* C24: averageNightWakeDuration of a day is round(total night-wake time /
\* totalNightWakeUps) when both the total night-wake time and
\* totalNightWakeUps are positive, and 0 otherwise; it is never negative.
C24_AverageNightWake ==
  pc = "done" =>
    \A i \in DOMAIN summaries :
      LET sm == summaries[i]
          total == MorningWake(sm) + EveningWake(sm)
      IN  /\ sm.averageNightWakeDuration >= 0
          /\ (total > 0 /\ sm.totalNightWakeUps > 0) =>
               IsRounded(sm.averageNightWakeDuration, total, sm.totalNightWakeUps)
          /\ (total = 0 \/ sm.totalNightWakeUps = 0) =>
               sm.averageNightWakeDuration = 0

\* C24 witness: a day with two night wake-ups and an odd total night-wake
\* time, whose average is rounded up, next to a day with night wake-ups and
\* no night-wake time.
C24_Witness ==
  /\ pc = "done"
  /\ \E i \in DOMAIN summaries :
       /\ summaries[i].totalNightWakeUps = 2
       /\ (MorningWake(summaries[i]) + EveningWake(summaries[i])) % 2 = 1
       /\ 2 * summaries[i].averageNightWakeDuration
            = MorningWake(summaries[i]) + EveningWake(summaries[i]) + 1

\* a day with a night wake-up and night sleep but no night-wake time
C24_WitnessZero ==
  /\ pc = "done"
  /\ \E i \in DOMAIN summaries :
       /\ summaries[i].totalNightWakeUps > 0
       /\ EveningNaps(summaries[i]) # <<>>
       /\ MorningWake(summaries[i]) + EveningWake(summaries[i]) = 0
(***************************************************************************)
(* SpecCare: one call of aggregateByDay on a list of feed, diaper and      *)
(* weight events with increasing timestamps over two days, one feed        *)
(* possibly over midnight.                                                 *)
(***************************************************************************)
MaxCareEvents == 4

CareTimes ==
  {DateTime(1, 10 * 60), DateTime(1, 11 * 60), DateTime(1, 23 * 60 + 30),
   DateTime(2, 30), DateTime(2, 60)}

\* "none": an event without diaperChangeType
CareDiaperKinds == {"WET", "DIRTY", "WET_AND_DIRTY", "none"}

CareWeights == {3500, 3600}

CareInputEvents ==
  {MkEvent(t, ts) : t \in {"START_FEED", "STOP_FEED"}, ts \in CareTimes}
    \cup {[MkEvent("DIAPER_CHANGE", ts) EXCEPT !.diaperChangeType = k] :
            ts \in CareTimes, k \in CareDiaperKinds}
    \cup {[MkEvent("WEIGHT", ts) EXCEPT !.weight = w] :
            ts \in CareTimes, w \in CareWeights}

InitCare ==
  /\ events \in StrictSeqsUpTo(CareInputEvents, MaxCareEvents)
  /\ firstEvents = events
  /\ firstSummaries = <<>>
  /\ runs = 0
  /\ pc = "sort"
  /\ RunIdle
  /\ AggEntry
  /\ MatchIdle
  /\ ParseIdle

NextCare == AggSort \/ AggMatch \/ AggDay \/ AggReturn

SpecCare == InitCare /\ [][NextCare]_vars

\* the positions of the DIAPER_CHANGE events of a date, and those of a kind
DiapersOn(dateStr) ==
  {k \in DOMAIN sortedEvents :
     /\ sortedEvents[k].type = "DIAPER_CHANGE"
     /\ sortedEvents[k].timestamp \div MinutesPerDay = dateStr}

DiapersOfKind(dateStr, kind) ==
  Cardinality({k \in DiapersOn(dateStr) : sortedEvents[k].diaperChangeType = kind})

\* C25: each DIAPER_CHANGE event on day D adds one entry to diaperChanges,
\* increments totalDiaperChanges by one and increments exactly the counter
\* of its kind (WET, DIRTY or WET_AND_DIRTY); hence in every DaySummary
\* totalDiaperChanges = wetDiaperChanges + dirtyDiaperChanges +
\* mixedDiaperChanges = length of diaperChanges.
C25_DiaperRollup ==
  pc \in {"days", "done"} =>
    \A i \in DOMAIN summaries :
      LET sm == summaries[i]
          D == sm.date
      IN  /\ Len(sm.diaperChanges) = Cardinality(DiapersOn(D))
          /\ sm.totalDiaperChanges = Cardinality(DiapersOn(D))
          /\ sm.dirtyDiaperChanges = DiapersOfKind(D, "DIRTY")
          /\ sm.mixedDiaperChanges = DiapersOfKind(D, "WET_AND_DIRTY")
          /\ DiapersOfKind(D, "none") = 0 =>
               sm.wetDiaperChanges = DiapersOfKind(D, "WET")
          /\ sm.totalDiaperChanges
               = sm.wetDiaperChanges + sm.dirtyDiaperChanges + sm.mixedDiaperChanges

\* C25 witness: a day with one diaper change of each kind.
C25_Witness ==
  /\ pc = "done"
  /\ \E i \in DOMAIN summaries :
       /\ summaries[i].wetDiaperChanges = 1
       /\ summaries[i].dirtyDiaperChanges = 1
       /\ summaries[i].mixedDiaperChanges = 1
       /\ summaries[i].totalDiaperChanges = 3

\* the positions of the WEIGHT events of a date
WeightsOn(dateStr) ==
  {k \in DOMAIN sortedEvents :
     /\ sortedEvents[k].type = "WEIGHT"
     /\ sortedEvents[k].timestamp \div MinutesPerDay = dateStr}

\* C26: the weight of a DaySummary is the weight value of the
\* chronologically last WEIGHT event on that date, and is absent (0) when
\* the date has no WEIGHT event.
C26_LastWeight ==
  pc \in {"days", "done"} =>
    \A i \in DOMAIN summaries :
      LET ws == WeightsOn(summaries[i].date)
      IN  IF ws = {} THEN summaries[i].weight = 0
          ELSE \E k \in ws :
                 /\ \A j \in ws : sortedEvents[j].timestamp <= sortedEvents[k].timestamp
                 /\ summaries[i].weight = sortedEvents[k].weight

\* C26 witness: a day with two WEIGHT events of different values, and a
\* second day without one.
C26_Witness ==
  /\ pc = "done"
  /\ Len(summaries) = 2
  /\ \E j, k \in WeightsOn(summaries[1].date) :
       /\ j < k
       /\ sortedEvents[j].weight # sortedEvents[k].weight
       /\ summaries[1].weight = sortedEvents[k].weight
  /\ summaries[2].weight = 0
(***************************************************************************)
(* Two lists with the same events on a date (checked under SpecCare).  The *)
(* list of the call is compared with each list that keeps its events of    *)
(* the date and leaves out some of its events of the other dates.          *)
(***************************************************************************)
RECURSIVE Keeping(_, _, _)
Keeping(evts, keep, i) ==
  IF i > Len(evts) THEN <<>>
  ELSE IF i \in keep THEN <<evts[i]>> \o Keeping(evts, keep, i + 1)
  ELSE Keeping(evts, keep, i + 1)

\* the lists with the events of evts on dateStr and some of its other events
ListsAgreeingOn(evts, dateStr) ==
  LET onDate == {i \in DOMAIN evts : evts[i].timestamp \div MinutesPerDay = dateStr}
  IN  {Keeping(evts, onDate \cup K, 1) : K \in SUBSET (DOMAIN evts \ onDate)}

\* the summary of dateStr that a call on evts returns
SummaryOf(evts, dateStr) ==
  LET r == aggregateByDay(evts)
  IN  r[CHOOSE j \in DOMAIN r : r[j].date = dateStr]

SameDiapersAndWeight(a, b) ==
  /\ a.totalDiaperChanges = b.totalDiaperChanges
  /\ a.wetDiaperChanges = b.wetDiaperChanges
  /\ a.dirtyDiaperChanges = b.dirtyDiaperChanges
  /\ a.mixedDiaperChanges = b.mixedDiaperChanges
  /\ a.weight = b.weight

SameFeeding(a, b) ==
  /\ a.feedingSessions = b.feedingSessions
  /\ a.totalFeedingTime = b.totalFeedingTime

\* a feeding session of the list starts on dateStr and ends on another date
FeedEndsElsewhere(evts, dateStr) ==
  LET sorted == SortByTimestamp(evts)
      feedS == matchSessions(sorted, "START_FEED", "STOP_FEED")
  IN  \E k \in DOMAIN feedS :
        /\ feedS[k].end # NoEvent
        /\ sorted[feedS[k].start].timestamp \div MinutesPerDay = dateStr
        /\ sorted[feedS[k].end].timestamp \div MinutesPerDay # dateStr

\* C27 as stated: for two event lists that contain the same events on date
\* D, the DaySummary for D has the same diaper counts, the same weight and
\* the same feeding count and feeding total, whatever events the lists
\* contain on other dates.
C27_Original ==
  pc = "done" =>
    \A i \in DOMAIN summaries :
      \A other \in ListsAgreeingOn(events, summaries[i].date) :
        /\ SameDiapersAndWeight(summaries[i], SummaryOf(other, summaries[i].date))
        /\ SameFeeding(summaries[i], SummaryOf(other, summaries[i].date))

\* C27: for two event lists that contain the same events on date D, the
\* DaySummary for D has the same diaper counts and the same weight whatever
\* events the lists contain on other dates, and the same feeding count and
\* feeding total when in neither list a feeding session that starts on D
\* ends on another date.
C27_NoCrossDayLeakage ==
  pc = "done" =>
    \A i \in DOMAIN summaries :
      \A other \in ListsAgreeingOn(events, summaries[i].date) :
        LET D == summaries[i].date
        IN  /\ SameDiapersAndWeight(summaries[i], SummaryOf(other, D))
            /\ (~FeedEndsElsewhere(events, D) /\ ~FeedEndsElsewhere(other, D))
                 => SameFeeding(summaries[i], SummaryOf(other, D))

\* C27 witness: the first day has a counted feed, a diaper change or a
\* weight, and the list has an event of the second day that the other list
\* leaves out.
C27_Witness ==
  /\ pc = "done"
  /\ Len(summaries) = 2
  /\ summaries[1].feedingSessions = 1
  /\ summaries[1].totalDiaperChanges + summaries[1].weight > 0
  /\ Cardinality(ListsAgreeingOn(events, summaries[1].date)) > 1
  /\ ~FeedEndsElsewhere(events, summaries[1].date)
(***************************************************************************)
(* SpecBoth: one call of parseEntry on a message of up to MaxBothTokens    *)
(* words among the two category words, the two markers and a word that is  *)
(* no keyword, from any value of the two flags.                            *)
(***************************************************************************)
MaxBothTokens == 5

BothVocabulary == {"papa", "somn", "start", "stop", "si"}

InitBoth ==
  /\ state \in ParserStates
  /\ entry \in [date : RecordDates, message : SeqsUpTo(BothVocabulary, MaxBothTokens)]
  /\ out = <<>>
  /\ records = <<>>
  /\ ri = 1
  /\ parsed = <<>>
  /\ lines = <<>>
  /\ li = 1
  /\ currentEntry = NoEntry
  /\ pc = "parse"
  /\ RunIdle
  /\ events = <<>>
  /\ MatchIdle
  /\ AggIdle

NextBoth == ParseEntry

SpecBoth == InitBoth /\ [][NextBoth]_vars

\* the number of events of one of the types emitted for the record
Emitted(types) == Cardinality({i \in DOMAIN out : out[i].type \in types})

\* C28: parseEntry never emits two events of the same start/stop type
\* (START_FEED, STOP_FEED, START_SLEEP, STOP_SLEEP; also END_FEED, the type
\* the feed stops are emitted with) for one record, including records that
\* name both categories and are re-scanned.
C28_NoDuplicateType ==
  Parsed =>
    \A t \in {"START_FEED", "STOP_FEED", "END_FEED", "START_SLEEP", "STOP_SLEEP"} :
      Emitted({t}) <= 1

\* C28 witness: a record that names both categories, whose feed stop is
\* emitted by the feed block and met again by the re-scan.
C28_Witness ==
  /\ Parsed
  /\ isFeedMessage(entry.message) /\ isSleepMessage(entry.message)
  /\ Adjacent(entry.message, {"stop"}, {"papa"})
  /\ Adjacent(entry.message, {"start"}, {"somn"})
  /\ Emitted({"END_FEED"}) = 1
  /\ Emitted({"START_SLEEP"}) = 1

\* the message names both categories with a feed-stop phrase and a
\* sleep-start phrase, and these hold its only markers
StopFeedStartSleep(msg) ==
  /\ Adjacent(msg, {"stop"}, {"papa"})
  /\ Adjacent(msg, {"start"}, {"somn"})
  /\ Cardinality({i \in DOMAIN msg : msg[i] \in StartWords \cup StopWords}) = 2

\* C29: a record naming both categories with a feed-stop phrase and a
\* sleep-start phrase and no other marker ("stop papa si start somn") yields
\* exactly one feed STOP and one sleep START and no feed START or sleep
\* STOP; afterwards lastFeedWasStop = true and lastSleepWasStop = false.
C29_StopFeedStartSleep ==
  (Parsed /\ StopFeedStartSleep(entry.message)) =>
    /\ Emitted({"STOP_FEED", "END_FEED"}) = 1
    /\ Emitted({"START_SLEEP"}) = 1
    /\ Emitted({"START_FEED"}) = 0
    /\ Emitted({"STOP_SLEEP"}) = 0
    /\ state.lastFeedWasStop /\ ~state.lastSleepWasStop
(***************************************************************************)
(* SpecRun: one run of process-date.  main runs the five commands with     *)
(* execSync, which throws when the command fails; each command succeeds or *)
(* fails.  `ran` records the commands run, in order, with their outcome.   *)
(***************************************************************************)
AllOptions ==
  [fetchOnly : BOOLEAN, skipFetch : BOOLEAN, skipParse : BOOLEAN,
   skipPost : BOOLEAN, skipInsights : BOOLEAN]

InitRun ==
  /\ options \in AllOptions
  /\ step = "args"
  /\ ran = <<>>
  /\ exitCode = 0
  /\ pc = "main"
  /\ RangeIdle
  /\ GeminiIdle
  /\ ClientIdle
  /\ events = <<>>
  /\ MatchIdle
  /\ AggIdle
  /\ ParseIdle

\* const shouldSkipFetch = skipFetch || skipParse
shouldSkipFetch == options.skipFetch \/ options.skipParse

\* execSync(`npm run <command> ...`)
execSync(command, ok) == ran' = Append(ran, [step |-> command, ok |-> ok])

\* throw error, caught by main().catch: process.exit(1)
ThrownExitsZero == step' = "exited" /\ exitCode' = 0
Thrown == step' = "exited" /\ exitCode' = 1

\* main returns and the process ends
Returned == step' = "exited" /\ exitCode' = 0

Continue(next) == step' = next /\ exitCode' = exitCode

\* parseArgs: --fetch-only cannot be combined with --skip-fetch or --skip-parse
ParseArgs ==
  /\ step = "args"
  /\ IF options.fetchOnly /\ (options.skipFetch \/ options.skipParse)
       THEN step' = "exited" /\ exitCode' = 1
       ELSE Continue("fetch")
  /\ UNCHANGED <<options, ran, rangeVars, geminiVars, clientVars, events, pc, matchVars, aggVars, parseVars>>

\* Step 1: Fetch logs, and the return of the fetch-only mode
FetchLogs ==
  /\ step = "fetch"
  /\ \E ok \in BOOLEAN :
       /\ IF shouldSkipFetch THEN ran' = ran ELSE execSync("fetch", ok)
       /\ IF ~shouldSkipFetch /\ ~ok THEN Thrown
          ELSE IF options.fetchOnly THEN Returned
          ELSE Continue("parse")
  /\ UNCHANGED <<options, rangeVars, geminiVars, clientVars, events, pc, matchVars, aggVars, parseVars>>

\* Step 2: Parse logs
ParseLogs ==
  /\ step = "parse"
  /\ \E ok \in BOOLEAN :
       /\ IF options.skipParse THEN ran' = ran ELSE execSync("parse", ok)
       /\ IF ~options.skipParse /\ ~ok THEN Thrown ELSE Continue("aggregate")
  /\ UNCHANGED <<options, rangeVars, geminiVars, clientVars, events, pc, matchVars, aggVars, parseVars>>

\* Step 3: Aggregate
Aggregate ==
  /\ step = "aggregate"
  /\ \E ok \in BOOLEAN :
       /\ execSync("aggregate", ok)
       /\ IF ~ok THEN Thrown ELSE Continue("post")
  /\ UNCHANGED <<options, rangeVars, geminiVars, clientVars, events, pc, matchVars, aggVars, parseVars>>

\* Step 4: Post aggregated logs
PostAggregated ==
  /\ step = "post"
  /\ \E ok \in BOOLEAN :
       /\ IF options.skipPost THEN ran' = ran ELSE execSync("post", ok)
       /\ IF ~options.skipPost /\ ~ok THEN Thrown ELSE Continue("insights")
  /\ UNCHANGED <<options, rangeVars, geminiVars, clientVars, events, pc, matchVars, aggVars, parseVars>>

\* Step 5: Generate and send daily insights; the catch block only warns,
\* and main returns
Insights ==
  /\ step = "insights"
  /\ \E ok \in BOOLEAN :
       /\ IF options.skipInsights THEN ran' = ran ELSE execSync("insights", ok)
       /\ Returned
  /\ UNCHANGED <<options, rangeVars, geminiVars, clientVars, events, pc, matchVars, aggVars, parseVars>>

NextRun ==
  ParseArgs \/ FetchLogs \/ ParseLogs \/ Aggregate \/ PostAggregated \/ Insights

SpecRun == InitRun /\ [][NextRun]_vars

(***************************************************************************)
(* Claims about process-date (checked under SpecRun).                      *)
(***************************************************************************)
StepOrder == <<"fetch", "parse", "aggregate", "post", "insights">>

StepNumber(command) == CHOOSE n \in DOMAIN StepOrder : StepOrder[n] = command

\* the commands were run in the fixed order, each after the success of the
\* ones run before it
RanInOrder ==
  \A i, j \in DOMAIN ran :
    i < j => StepNumber(ran[i].step) < StepNumber(ran[j].step) /\ ran[i].ok

\* a failed command other than insights is the last one run and the run
\* has ended with exit status 1
FailureStopsRun ==
  \A i \in DOMAIN ran :
    (~ran[i].ok /\ ran[i].step # "insights") =>
      i = Len(ran) /\ step = "exited" /\ exitCode = 1

\* a run with accepted options in which no command but insights failed
\* ends with exit status 0
InsightsFailureTolerated ==
  (/\ step = "exited"
   /\ ~(options.fetchOnly /\ (options.skipFetch \/ options.skipParse))
   /\ \A i \in DOMAIN ran : ran[i].ok \/ ran[i].step = "insights")
    => exitCode = 0

\* a command is run only when its step is not skipped, and when it has
\* run, the steps before it that are not skipped have run too
NoStepLeftOut ==
  \A i \in DOMAIN ran :
    LET skipped(c) == \/ c = "fetch" /\ shouldSkipFetch
                      \/ c = "parse" /\ options.skipParse
                      \/ c = "post" /\ options.skipPost
                      \/ c = "insights" /\ options.skipInsights
    IN  /\ ~skipped(ran[i].step)
        /\ \A n \in 1..(StepNumber(ran[i].step) - 1) :
             skipped(StepOrder[n]) \/ \E j \in 1..(i - 1) : ran[j].step = StepOrder[n]

\* C30: process-date runs its steps in the fixed order fetch, parse,
\* aggregate, post, insights, each step only after the previous non-skipped
\* step succeeded; a failure of fetch, parse, aggregate or post stops the
\* run with a non-zero exit and no later step is run, whereas a failure of
\* the insights step does not fail the run.
C30_StepsInOrder ==
  /\ [](RanInOrder /\ NoStepLeftOut /\ FailureStopsRun /\ InsightsFailureTolerated)
  /\ [][step = "exited" => ran' = ran]_vars

\* C30 witness: all five commands ran, insights failed and the run ended
\* with exit status 0.
C30_Witness ==
  /\ step = "exited"
  /\ Len(ran) = 5
  /\ ~ran[5].ok
  /\ exitCode = 0

\* a run that the failure of the post command ended
C30_WitnessFailure ==
  /\ step = "exited"
  /\ Len(ran) = 4
  /\ ~ran[4].ok
  /\ exitCode = 1
(***************************************************************************)
(* SpecRange: one run of process-range.  Dates are day numbers; the        *)
(* process-date command of a date succeeds or fails (execSync throws).     *)
(***************************************************************************)
MaxRangeDay == 4

InitRange ==
  /\ startDate \in 1..MaxRangeDay
  /\ endDate \in 1..MaxRangeDay
  /\ rangeDates = <<>>
  /\ rangeIdx = 1
  /\ results = <<>>
  /\ rangeExitCode = 0
  /\ options = NoOptions
  /\ step = "idle"
  /\ ran = <<>>
  /\ exitCode = 0
  /\ GeminiIdle
  /\ ClientIdle
  /\ pc = "rangeArgs"
  /\ events = <<>>
  /\ MatchIdle
  /\ AggIdle
  /\ ParseIdle

\* the while loop that fills dates: currentDate up to endDate inclusive
RECURSIVE DatesUpToExclusive(_, _)
RECURSIVE DatesUpTo(_, _)
DatesUpToExclusive(currentDate, last) ==
  IF currentDate < last
    THEN <<currentDate>> \o DatesUpToExclusive(currentDate + 1, last)
    ELSE <<>>
DatesUpTo(currentDate, last) ==
  IF currentDate < last \/ currentDate = last
    THEN <<currentDate>> \o DatesUpTo(currentDate + 1, last)
    ELSE <<>>

\* parseArgs (End date must be on or after start date) and the list of dates
RangeParseArgs ==
  /\ pc = "rangeArgs"
  /\ IF endDate < startDate
       THEN /\ pc' = "rangeExited"
            /\ rangeExitCode' = 1
            /\ rangeDates' = rangeDates
       ELSE /\ pc' = "rangeLoop"
            /\ rangeExitCode' = rangeExitCode
            /\ rangeDates' = DatesUpTo(startDate, endDate)
  /\ UNCHANGED <<startDate, endDate, rangeIdx, results, dateVars, geminiVars,
                 clientVars, events, matchVars, aggVars, parseVars>>

\* one iteration of the for loop: the try block and its catch
RangeProcessDate ==
  /\ pc = "rangeLoop"
  /\ rangeIdx <= Len(rangeDates)
  /\ \E ok \in BOOLEAN :
       results' = Append(results, [date |-> rangeDates[rangeIdx], success |-> ok])
  /\ rangeIdx' = rangeIdx + 1
  /\ UNCHANGED <<startDate, endDate, rangeDates, rangeExitCode, pc, dateVars,
                 geminiVars, clientVars, events, matchVars, aggVars, parseVars>>

\* const failed = results.filter(r => !r.success)
RangeFailed(rs) == SelectSeq(rs, LAMBDA r : ~r.success)

\* the summary after the loop: process.exit(1) when a date failed
RangeSummary ==
  /\ pc = "rangeLoop"
  /\ rangeIdx > Len(rangeDates)
  /\ rangeExitCode' = (IF Len(RangeFailed(results)) > 0 THEN 1 ELSE 0)
  /\ pc' = "rangeExited"
  /\ UNCHANGED <<startDate, endDate, rangeDates, rangeIdx, results, dateVars,
                 geminiVars, clientVars, events, matchVars, aggVars, parseVars>>

NextRange == RangeParseArgs \/ RangeProcessDate \/ RangeSummary

SpecRange == InitRange /\ [][NextRange]_vars

(***************************************************************************)
(* Claims about process-range (checked under SpecRange).                   *)
(***************************************************************************)
\* the dates processed so far are start-date, start-date + 1, ... in order
ProcessedAscending ==
  /\ Len(results) <= endDate - startDate + 1 \/ results = <<>>
  /\ \A k \in DOMAIN results : results[k].date = startDate + k - 1

RangeAccepted == startDate <= endDate

\* C31: process-range processes every date from start-date to end-date
\* inclusive exactly once and in ascending order; a failure on one date
\* does not prevent the following dates from being processed, and the
\* process exits non-zero if and only if at least one date failed.
C31_EveryDateOnce ==
  /\ ProcessedAscending
  /\ (pc = "rangeExited" /\ RangeAccepted) =>
       /\ Len(results) = endDate - startDate + 1
       /\ rangeExitCode # 0 <=> \E k \in DOMAIN results : ~results[k].success

\* C31 witness: the first date of three failed, the other two were
\* processed and succeeded, and the process exited with status 1.
C31_Witness ==
  /\ pc = "rangeExited"
  /\ Len(results) = 3
  /\ ~results[1].success /\ results[2].success /\ results[3].success
  /\ rangeExitCode = 1

\* a run in which every date succeeded exits with status 0
C31_WitnessSuccess ==
  /\ pc = "rangeExited"
  /\ Len(results) = 2
  /\ results[1].success /\ results[2].success
  /\ rangeExitCode = 0
(***************************************************************************)
(* SpecGemini: the request loop of parseWithGemini.  Each call of          *)
(* model.generateContent returns or throws an error with a status and a    *)
(* message; the jitter of the delay is the smallest or the largest value.  *)
(***************************************************************************)
maxAttempts == 5
baseDelayMs == 1000
maxDelayMs == 20000
MaxJitter == 249

ErrorStatuses == {0, 429, 503, 500}

ErrorMessages == {"", "Service Unavailable", "bad request"}

GeminiErrors == [status : ErrorStatuses, message : ErrorMessages]

\* (err?.message || '').toLowerCase()
ToLowerCase(message) ==
  IF message = "Service Unavailable" THEN "service unavailable" ELSE message

\* message.includes(...) for one of the five phrases
IncludesRetryPhrase(lower) == lower \in {"service unavailable"}

isRetryableGeminiErrorByStatusOnly(error) == error.status \in {429, 503}
isRetryableGeminiError(error) ==
  \/ error.status = 429 \/ error.status = 503
  \/ IncludesRetryPhrase(ToLowerCase(error.message))

RECURSIVE Pow2(_)
Pow2(n) == IF n = 0 THEN 1 ELSE 2 * Pow2(n - 1)

Min(a, b) == IF a < b THEN a ELSE b

getBackoffDelayMs(att, base, max, jitter) == Min(base * Pow2(att - 1) + jitter, max)

InitGemini ==
  /\ attempt = 1
  /\ modelCalls = 0
  /\ sleeps = 0
  /\ lastError = NoError
  /\ delay = 0
  /\ thrown = NoError
  /\ geminiPc = "call"
  /\ options = NoOptions
  /\ step = "idle"
  /\ ran = <<>>
  /\ exitCode = 0
  /\ RangeIdle
  /\ ClientIdle
  /\ pc = "parseWithGemini"
  /\ events = <<>>
  /\ MatchIdle
  /\ AggIdle
  /\ ParseIdle

GeminiFrame ==
  UNCHANGED <<dateVars, rangeVars, clientVars, events, pc, matchVars, aggVars, parseVars>>

\* the try block succeeds: text = response.text(); break
GenerateContentReturns ==
  /\ geminiPc = "call"
  /\ attempt <= maxAttempts
  /\ modelCalls' = modelCalls + 1
  /\ lastError' = NoError
  /\ geminiPc' = "responded"
  /\ UNCHANGED <<attempt, sleeps, delay, thrown>>
  /\ GeminiFrame

\* the try block throws: the catch block up to the call of sleep
GenerateContentThrows ==
  /\ geminiPc = "call"
  /\ attempt <= maxAttempts
  /\ \E error \in GeminiErrors \ {NoError}, jitter \in {0, MaxJitter} :
       /\ modelCalls' = modelCalls + 1
       /\ lastError' = error
       /\ IF ~isRetryableGeminiError(error) \/ attempt = maxAttempts
            THEN /\ thrown' = error
                 /\ geminiPc' = "thrown"
                 /\ delay' = delay
            ELSE /\ thrown' = thrown
                 /\ geminiPc' = "sleep"
                 /\ delay' = getBackoffDelayMs(attempt, baseDelayMs, maxDelayMs, jitter)
  /\ UNCHANGED <<attempt, sleeps>>
  /\ GeminiFrame

\* await sleep(delay) and the attempt++ of the loop
Sleep ==
  /\ geminiPc = "sleep"
  /\ sleeps' = sleeps + 1
  /\ attempt' = attempt + 1
  /\ geminiPc' = "call"
  /\ UNCHANGED <<modelCalls, lastError, delay, thrown>>
  /\ GeminiFrame

NextGemini == GenerateContentReturns \/ GenerateContentThrows \/ Sleep

SpecGemini == InitGemini /\ [][NextGemini]_vars
(***************************************************************************)
(* Claims about parseWithGemini (checked under SpecGemini).                *)
(***************************************************************************)
\* status 429 or 503, or a rate-limit / unavailable message
RetryableError(error) ==
  \/ error.status \in {429, 503}
  \/ error.message \in {"Service Unavailable"}

GeminiEnded == geminiPc \in {"responded", "thrown"}

\* a call of the model is the first one or follows a retryable error and
\* the sleep after it
CallsOnlyAfterRetryable ==
  modelCalls' # modelCalls =>
    /\ modelCalls' = modelCalls + 1
    /\ modelCalls = 0 \/ (lastError # NoError /\ RetryableError(lastError))
    /\ sleeps = modelCalls

\* C32: parseWithGemini calls the model at most 5 times: it stops at the
\* first successful call, rethrows at once on an error that is not
\* retryable, rethrows the last error after the 5th failed attempt, and
\* never sleeps after the final attempt.
C32_BoundedRetries ==
  /\ [](modelCalls <= 5)
  /\ [][CallsOnlyAfterRetryable]_vars
  /\ []((geminiPc = "responded") => lastError = NoError)
  /\ []((lastError # NoError /\ ~RetryableError(lastError))
          => (geminiPc = "thrown" /\ thrown = lastError))
  /\ []((lastError # NoError /\ modelCalls = 5)
          => (geminiPc = "thrown" /\ thrown = lastError))
  /\ []((geminiPc = "thrown")
          => (~RetryableError(lastError) \/ modelCalls = 5))
  /\ [](GeminiEnded => sleeps = modelCalls - 1)
  /\ [][GeminiEnded => UNCHANGED <<modelCalls, sleeps>>]_vars

\* C32 witness: the fifth call failed with a retryable error, which was
\* rethrown after four sleeps.
C32_Witness ==
  /\ geminiPc = "thrown"
  /\ modelCalls = 5
  /\ sleeps = 4
  /\ RetryableError(thrown)

\* the third call succeeded after two sleeps
C32_WitnessSuccess ==
  /\ geminiPc = "responded"
  /\ modelCalls = 3
  /\ sleeps = 2
(***************************************************************************)
(* SpecRecords: the entries of a file are handed to parseEntry one after   *)
(* the other, with the flags of parseLogFile threaded through; `parsed`    *)
(* collects the events in the order in which they are emitted.             *)
(***************************************************************************)
MaxFlagRecords == 2

FlagMessages ==
  {<<"papa">>, <<"papa", "10:00">>, <<"somn", "10:00">>, <<"start", "papa">>,
   <<"stop", "papa">>, <<"start", "somn">>, <<"stop", "somn">>, <<"dormit">>,
   <<"stop", "papa", "si", "start", "somn">>, <<"start", "stop", "papa">>,
   <<"start", "stop", "somn">>, <<"papa", "23:10-23:40">>,
   <<"somn", "23:10-23:40">>, <<"papa", "somn", "23:10-23:40">>,
   <<"schimbat", "pipi">>, <<"si">>}

InitRecords ==
  /\ records \in SeqsUpTo([date : {PipeRecordDate}, message : FlagMessages],
                          MaxFlagRecords)
  /\ state = [lastFeedWasStop |-> TRUE, lastSleepWasStop |-> TRUE]
  /\ entry = NoEntry
  /\ out = <<>>
  /\ ri = 1
  /\ parsed = <<>>
  /\ lines = <<>>
  /\ li = 1
  /\ currentEntry = NoEntry
  /\ pc = "records"
  /\ RunIdle
  /\ events = <<>>
  /\ MatchIdle
  /\ AggIdle

\* const entryEvents = parseEntry(currentEntry, state); events.push(...entryEvents)
ParseNext ==
  /\ pc = "records"
  /\ ri <= Len(records)
  /\ entry' = records[ri]
  /\ out' = parseEntry(records[ri], state).events
  /\ state' = parseEntry(records[ri], state).state
  /\ parsed' = parsed \o parseEntry(records[ri], state).events
  /\ ri' = ri + 1
  /\ UNCHANGED <<runVars, events, pc, matchVars, aggVars, records, lineVars>>

NextRecords == ParseNext

SpecRecords == InitRecords /\ [][NextRecords]_vars

(***************************************************************************)
(* Claims about the flags (checked under SpecRecords).                     *)
(***************************************************************************)
FeedStartTypes == {"START_FEED"}
FeedStopTypes == {"STOP_FEED", "END_FEED"}
SleepStartTypes == {"START_SLEEP"}
SleepStopTypes == {"STOP_SLEEP"}

\* no event of the types has been emitted, or the last one emitted is a stop
LastIsStop(evts, startTypes, stopTypes) ==
  LET own == SelectSeq(evts, LAMBDA e : e.type \in startTypes \cup stopTypes)
  IN  own = <<>> \/ own[Len(own)].type \in stopTypes

EmitsNone(evts, types) == \A k \in DOMAIN evts : evts[k].type \notin types

\* C33: after parseEntry has processed any sequence of records,
\* lastFeedWasStop is true exactly when no feed START/STOP event has been
\* emitted yet or the most recently emitted feed event is a STOP, and
\* likewise lastSleepWasStop for sleep events; records that emit no event
\* of a category leave that category's flag unchanged.
C33_FlagsFollowLastEvent ==
  /\ [](state.lastFeedWasStop <=> LastIsStop(parsed, FeedStartTypes, FeedStopTypes))
  /\ [](state.lastSleepWasStop <=> LastIsStop(parsed, SleepStartTypes, SleepStopTypes))
  /\ [][EmitsNone(out', FeedStartTypes \cup FeedStopTypes)
          => state'.lastFeedWasStop = state.lastFeedWasStop]_vars
  /\ [][EmitsNone(out', SleepStartTypes \cup SleepStopTypes)
          => state'.lastSleepWasStop = state.lastSleepWasStop]_vars

\* C33 witness: two records were processed, feed events were emitted with
\* a start last, sleep events with a stop last, and the flags say so.
C33_Witness ==
  /\ ri = 3
  /\ ~EmitsNone(parsed, FeedStartTypes \cup FeedStopTypes)
  /\ ~EmitsNone(parsed, SleepStartTypes \cup SleepStopTypes)
  /\ ~state.lastFeedWasStop /\ state.lastSleepWasStop
  /\ EmitsNone(out, FeedStartTypes \cup FeedStopTypes)

\* one call of parseEntry from any value of the flags (checked under
\* SpecParse): the flag of a category afterwards tells whether the last
\* event of the category that the record emitted is a stop, and is
\* unchanged when it emitted none
FlagsFollowRecord ==
  [][(pc = "parse" /\ pc' = "parsed") =>
       /\ state'.lastFeedWasStop
            = IF EmitsNone(out', FeedStartTypes \cup FeedStopTypes)
                THEN state.lastFeedWasStop
                ELSE LastIsStop(out', FeedStartTypes, FeedStopTypes)
       /\ state'.lastSleepWasStop
            = IF EmitsNone(out', SleepStartTypes \cup SleepStopTypes)
                THEN state.lastSleepWasStop
                ELSE LastIsStop(out', SleepStartTypes, SleepStopTypes)]_vars
(***************************************************************************)
(* Conservation of events by matchSessions (checked under SpecMatch).      *)
(***************************************************************************)
SessionsStartingAt(k) == {j \in DOMAIN sessions : sessions[j].start = k}

SessionsEndingAt(k) == {j \in DOMAIN sessions : sessions[j].end = k}

\* C34: matchSessions conserves events: each START event of the category
\* is the start of exactly one returned session (so the number of sessions
\* equals the number of START events) and each STOP event is the end of at
\* most one session.
C34_EventsConserved ==
  pc = "done" =>
    /\ \A k \in DOMAIN events :
         /\ events[k].type = startType => Cardinality(SessionsStartingAt(k)) = 1
         /\ events[k].type # startType => SessionsStartingAt(k) = {}
         /\ events[k].type = endType => Cardinality(SessionsEndingAt(k)) <= 1
         /\ events[k].type # endType => SessionsEndingAt(k) = {}
    /\ Len(sessions) = Cardinality({k \in DOMAIN events : events[k].type = startType})

\* C34 witness: START, STOP, STOP of the category: one session for the one
\* start, ended by the first stop, and the second stop ends no session.
C34_Witness ==
  /\ pc = "done"
  /\ Len(events) = 3
  /\ events[1].type = startType
  /\ events[2].type = endType
  /\ events[3].type = endType
  /\ Len(sessions) = 1
  /\ SessionsEndingAt(2) # {} /\ SessionsEndingAt(3) = {}
(***************************************************************************)
(* The nap flags against the sleep totals (checked under SpecSleep).       *)
(***************************************************************************)
NightNaps(sm) == SelectSeq(sm.naps, LAMBDA n : n.isNightSleep)

DayNaps(sm) == SelectSeq(sm.naps, LAMBDA n : ~n.isNightSleep)

\* C35: in every DaySummary the per-nap flag and the totals agree:
\* totalNightSleepTime equals the sum of durationMinutes over the entries
\* of naps with isNightSleep = true, and totalDaySleepTime equals the sum
\* over the entries with isNightSleep = false.
C35_FlagsAgreeWithTotals ==
  pc = "done" =>
    \A k \in DOMAIN summaries :
      /\ MinutesOf(NightNaps(summaries[k])) = summaries[k].totalNightSleepTime
      /\ MinutesOf(DayNaps(summaries[k])) = summaries[k].totalDaySleepTime
(***************************************************************************)
(* The order of the input list (checked under SpecSleep, whose lists have  *)
(* events that share a timestamp).                                         *)
(***************************************************************************)
\* the lists with the same events as evts, in every order
Reorderings(evts) ==
  {[k \in DOMAIN evts |-> evts[f[k]]] : f \in Permutations(DOMAIN evts)}

\* C36: aggregateByDay does not depend on the order of its input list: for
\* every permutation of the same events, including events that share a
\* timestamp, it returns the same summaries.
C36_OrderIndependent ==
  pc = "done" =>
    \A other \in Reorderings(events) : aggregateByDay(other) = summaries

\* the same for lists in which no two events share a timestamp
C36_OrderIndependentWithoutTies ==
  (pc = "done" /\ \A j, k \in DOMAIN events :
                    j # k => events[j].timestamp # events[k].timestamp)
    => \A other \in Reorderings(events) : aggregateByDay(other) = summaries
(***************************************************************************)
(* The day-wake average (checked under SpecNight).                         *)
(***************************************************************************)
\* the minutes from the last morning nap's end, or nightEnd, to the first
\* evening nap's start, or nightStart
DaytimeSpan(sm) ==
  LET m == MorningNaps(sm)
      e == EveningNaps(sm)
      from == IF m # <<>> THEN m[Len(m)].endTime ELSE 60 * NIGHT_END_HOUR
      to == IF e # <<>> THEN e[1].startTime ELSE 60 * NIGHT_START_HOUR
  IN  to - from

\* C37: averageDayWakeDuration is never negative: for every day with at
\* least one day-sleep session, the daytime span (from the last morning
\* nap's end, or nightEnd, to the first evening nap's start, or nightStart)
\* is at least totalDaySleepTime.
C37_DayWakeNotNegative ==
  pc = "done" =>
    \A k \in DOMAIN summaries :
      /\ summaries[k].averageDayWakeDuration >= 0
      /\ summaries[k].totalDaySleepTime > 0
           => DaytimeSpan(summaries[k]) >= summaries[k].totalDaySleepTime

(***************************************************************************)
(* SpecBothRange: one call of parseEntry on a message of up to             *)
(* MaxRangeTokens tokens among the two category words, a time range, the   *)
(* deleted-message notice and the weight and diaper keywords, from any     *)
(* value of the two flags.                                                 *)
(***************************************************************************)
MaxRangeTokens == 4

RangeVocabulary ==
  {"papa", "somn", "23:10-23:40", "deleted", "schimbat", "cantarit", "3500g"}

InitBothRange ==
  /\ state \in ParserStates
  /\ entry \in [date : RecordDates, message : SeqsUpTo(RangeVocabulary, MaxRangeTokens)]
  /\ out = <<>>
  /\ records = <<>>
  /\ ri = 1
  /\ parsed = <<>>
  /\ lines = <<>>
  /\ li = 1
  /\ currentEntry = NoEntry
  /\ pc = "parse"
  /\ RunIdle
  /\ events = <<>>
  /\ MatchIdle
  /\ AggIdle

NextBothRange == ParseEntry

SpecBothRange == InitBothRange /\ [][NextBothRange]_vars

\* the message has a time range and names both the feed and the sleep
\* category
BothRangeCase ==
  /\ extractTimeRange(entry.message) # <<>>
  /\ isFeedMessage(entry.message)
  /\ isSleepMessage(entry.message)

\* the feed and sleep events of a list of events, in order
FeedAndSleepEvents(evts) ==
  SelectSeq(evts, LAMBDA ev :
    ev.type \in FeedStartTypes \cup FeedStopTypes \cup SleepStartTypes \cup SleepStopTypes)

\* the call emits, as its feed and sleep events, the feed START at the
\* range's start and the feed STOP at its end and nothing else, leaves
\* lastFeedWasStop true and lastSleepWasStop as it was
FeedPairOnly ==
  LET range == extractTimeRange(entry.message)
      fs == FeedAndSleepEvents(out')
  IN  /\ Len(fs) = 2
      /\ fs[1].type = "START_FEED"
      /\ fs[1].timestamp = OnRecordDate(range[1])
      /\ fs[2].type \in FeedStopTypes
      /\ fs[2].timestamp = OnRecordDate(range[2])
      /\ Emitted(SleepStartTypes \cup SleepStopTypes)' = 0
      /\ state'.lastFeedWasStop
      /\ state'.lastSleepWasStop = state.lastSleepWasStop

\* C38 as stated: a record with a time range that names both the feed and
\* the sleep category emits only the feed START/STOP pair, emits no sleep
\* event, sets lastFeedWasStop to true and leaves lastSleepWasStop
\* unchanged.
C38_Original ==
  [][(pc = "parse" /\ BothRangeCase) => FeedPairOnly]_vars

\* C38 (amended): the same, for a message that is not a deleted-message
\* notice.
C38_BothCategoriesRangeIsFeed ==
  [][(pc = "parse" /\ BothRangeCase /\ ~isDeleted(entry.message))
       => FeedPairOnly]_vars

\* C38 witness: "papa somn 23:10-23:40" has been parsed with both flags
\* false into START_FEED and END_FEED; lastSleepWasStop is still false.
C38_Witness ==
  /\ Parsed
  /\ entry.message = <<"papa", "somn", "23:10-23:40">>
  /\ Len(out) = 2
  /\ out[1].type = "START_FEED"
  /\ out[2].type = "END_FEED"
  /\ state.lastFeedWasStop
  /\ ~state.lastSleepWasStop
(***************************************************************************)
(* SpecClient: one call of withWhatsAppClient.  The client emits 'ready'   *)
(* and 'auth_failure' in any order and any number of times up to           *)
(* MaxCallbacks; each callback runs to its next await in one step, and the *)
(* callbacks waiting at an await resume in any order.  work(client)        *)
(* returns or throws.  Entry h of handlers is the h-th callback started.   *)
(***************************************************************************)
MaxCallbacks == 3

Fulfilled == [state |-> "fulfilled", with |-> "result"]
Rejected(error) == [state |-> "rejected", with |-> error]

\* a callback waiting at an await ("sync", "work", "destroy") or finished
\* ("done"), with the outcome it will hand to resolve or reject
Handler(at, outcome) == [at |-> at, outcome |-> outcome]

PutHandler(h, v) ==
  IF h > Len(handlers) THEN Append(handlers, v) ELSE [handlers EXCEPT ![h] = v]

InitClient ==
  /\ settled = FALSE
  /\ destroyCalls = 0
  /\ promise = Pending
  /\ settleCalls = 0
  /\ outcomes = <<>>
  /\ handlers = <<>>
  /\ options = NoOptions
  /\ step = "idle"
  /\ ran = <<>>
  /\ exitCode = 0
  /\ RangeIdle
  /\ GeminiIdle
  /\ pc = "withWhatsAppClient"
  /\ events = <<>>
  /\ MatchIdle
  /\ AggIdle
  /\ ParseIdle

ClientFrame ==
  UNCHANGED <<dateVars, rangeVars, geminiVars, events, pc, matchVars, aggVars, parseVars>>

\* safeReject(error), called by callback h, up to its await
safeRejectUnguarded(h, error) ==
  /\ outcomes' = Append(outcomes, Rejected(error))
  /\ settled' = TRUE
  /\ destroyCalls' = destroyCalls + 1
  /\ handlers' = PutHandler(h, Handler("destroy", Rejected(error)))
safeReject(h, error) ==
  /\ outcomes' = Append(outcomes, Rejected(error))
  /\ IF settled
       THEN /\ handlers' = PutHandler(h, Handler("done", Pending))
            /\ UNCHANGED <<settled, destroyCalls>>
       ELSE /\ settled' = TRUE
            /\ destroyCalls' = destroyCalls + 1
            /\ handlers' = PutHandler(h, Handler("destroy", Rejected(error)))

\* safeResolve(value), called by callback h, up to its await
safeResolve(h) ==
  /\ outcomes' = Append(outcomes, Fulfilled)
  /\ IF settled
       THEN /\ handlers' = PutHandler(h, Handler("done", Pending))
            /\ UNCHANGED <<settled, destroyCalls>>
       ELSE /\ settled' = TRUE
            /\ destroyCalls' = destroyCalls + 1
            /\ handlers' = PutHandler(h, Handler("destroy", Fulfilled))

\* the client emits 'auth_failure': void safeReject(new Error(...))
AuthFailure ==
  /\ pc = "withWhatsAppClient"
  /\ Len(handlers) < MaxCallbacks
  /\ safeReject(Len(handlers) + 1, "authFailure")
  /\ UNCHANGED <<promise, settleCalls>>
  /\ ClientFrame

\* the client emits 'ready': the callback runs to await waitForSync(...)
Ready ==
  /\ pc = "withWhatsAppClient"
  /\ Len(handlers) < MaxCallbacks
  /\ handlers' = Append(handlers, Handler("sync", Pending))
  /\ UNCHANGED <<settled, destroyCalls, promise, settleCalls, outcomes>>
  /\ ClientFrame

\* waitForSync has finished: the callback calls work(client) and awaits it
SyncDone ==
  /\ pc = "withWhatsAppClient"
  /\ \E h \in DOMAIN handlers :
       /\ handlers[h].at = "sync"
       /\ handlers' = [handlers EXCEPT ![h].at = "work"]
  /\ UNCHANGED <<settled, destroyCalls, promise, settleCalls, outcomes>>
  /\ ClientFrame

\* work(client) has returned: await safeResolve(result)
WorkReturns ==
  /\ pc = "withWhatsAppClient"
  /\ \E h \in DOMAIN handlers :
       /\ handlers[h].at = "work"
       /\ safeResolve(h)
  /\ UNCHANGED <<promise, settleCalls>>
  /\ ClientFrame

\* work(client) has thrown: the catch block, await safeReject(error)
WorkThrows ==
  /\ pc = "withWhatsAppClient"
  /\ \E h \in DOMAIN handlers :
       /\ handlers[h].at = "work"
       /\ safeReject(h, "workError")
  /\ UNCHANGED <<promise, settleCalls>>
  /\ ClientFrame

\* await client.destroy() is over, fulfilled or rejected (the empty catch
\* block swallows a rejection): resolve(value) or reject(error).  A promise
\* that is no longer pending ignores the call.
DestroySettled ==
  /\ pc = "withWhatsAppClient"
  /\ \E h \in DOMAIN handlers :
       /\ handlers[h].at = "destroy"
       /\ settleCalls' = settleCalls + 1
       /\ promise' = IF promise = Pending THEN handlers[h].outcome ELSE promise
       /\ handlers' = [handlers EXCEPT ![h].at = "done"]
  /\ UNCHANGED <<settled, destroyCalls, outcomes>>
  /\ ClientFrame

NextClient ==
  \/ AuthFailure
  \/ Ready
  \/ SyncDone
  \/ WorkReturns
  \/ WorkThrows
  \/ DestroySettled

\* a callback that waits for client.destroy() resumes once it has settled
SpecClient == InitClient /\ [][NextClient]_vars /\ WF_vars(DestroySettled)

\* resolve and reject have been called at most once, and client.destroy
\* at most once
AtMostOnce == settleCalls <= 1 /\ destroyCalls <= 1

\* the promise is settled with the first outcome handed to safeResolve or
\* safeReject, after client.destroy has been called
FirstOutcomeWins ==
  promise # Pending =>
    /\ settleCalls = 1
    /\ destroyCalls = 1
    /\ promise = outcomes[1]

\* resolve or reject is called only after client.destroy has been called,
\* and a settled promise keeps its outcome
DestroyedBeforeSettled ==
  /\ settleCalls' # settleCalls => destroyCalls = 1
  /\ promise # Pending => promise' = promise

\* C39: under every interleaving of the 'ready' and 'auth_failure'
\* callbacks and of the completion or failure of work, resolve and reject
\* are called at most once in total, the promise is settled with the first
\* outcome and is settled once an outcome has arrived, and client.destroy
\* is called at most once, before the promise settles.
C39_SettledOnce ==
  /\ [](AtMostOnce /\ FirstOutcomeWins)
  /\ [][DestroyedBeforeSettled]_vars
  /\ (outcomes # <<>>) ~> (promise # Pending)

\* C39 witness: 'auth_failure' came first and the result of work second;
\* the promise is rejected with the authentication failure after one call
\* of client.destroy.
C39_Witness ==
  /\ Len(outcomes) >= 2
  /\ outcomes[1] = Rejected("authFailure")
  /\ outcomes[2] = Fulfilled
  /\ promise = Rejected("authFailure")
  /\ destroyCalls = 1
  /\ settleCalls = 1

\* C39 witness: work returned first and 'auth_failure' came while
\* client.destroy was running; the promise is fulfilled.
C39_WitnessResolved ==
  /\ Len(outcomes) >= 2
  /\ outcomes[1] = Fulfilled
  /\ outcomes[2] = Rejected("authFailure")
  /\ promise = Fulfilled
  /\ destroyCalls = 1
====
